---------------------------- MODULE Spec2Model ----------------------------
(***************************************************************************)
(* Model of the actionista-todoist action chain: the binary operator       *)
(* registry (actionista/binary_operators.py), the attribute filter         *)
(* filter_tasks (actionista/todoist/action_commands.py and the older copy  *)
(* in actionista/todoist/action_cli.py) and the executor action_cli        *)
(* (actionista/todoist/action_cli.py).                                     *)
(*                                                                         *)
(* Python values are records with the same four fields whatever their      *)
(* type: t is the Python type, s the characters of a str, n the number of  *)
(* an int or bool, l the elements of a list of str.  A str is a sequence   *)
(* of one-character strings.                                               *)
(***************************************************************************)
EXTENDS Integers, Sequences, FiniteSets, TLC

(***************************************************************************)
(* Bounds of the model.                                                    *)
(***************************************************************************)
MaxTasks == 2
MaxChain == 3
MaxArgs == 3
MaxSort == 3
MaxChanges == 2

(***************************************************************************)
(* Python values.                                                          *)
(***************************************************************************)
V(t, s, n, l) == [t |-> t, s |-> s, n |-> n, l |-> l]
NoneV   == V("none", <<>>, 0, <<>>)
Absent  == V("absent", <<>>, 0, <<>>)     \* key not in the dict
Err     == V("raise", <<>>, 0, <<>>)      \* the call raised an exception
MatchV  == V("match", <<>>, 0, <<>>)      \* an re.Match object
DictV   == V("dict", <<>>, 0, <<>>)       \* a nested dict (the `due` dict)
S(s)    == V("str", s, 0, <<>>)
I(n)    == V("int", <<>>, n, <<>>)
B(b)    == V("bool", <<>>, IF b THEN 1 ELSE 0, <<>>)
L(l)    == V("list", <<>>, 0, l)
Dt(n)   == V("dt", <<>>, n, <<>>)         \* a datetime, n its point in time
TrueV   == B(TRUE)
FalseV  == B(FALSE)

IsNone(v) == v.t = "none"
IsStr(v)  == v.t = "str"
IsList(v) == v.t = "list"
\* isinstance(v, int): bool is a subclass of int
IsInt(v)  == v.t \in {"int", "bool"}
IsErr(v)  == v.t = "raise"

(***************************************************************************)
(* Characters: the alphabet of the model in code point order.              *)
(***************************************************************************)
CharOrder ==
    << " ", "!", "'", "*", ",", ".", "/",
       "0", "1", "2", "3", "4", "5", "6", "7", "8", "9", "?",
       "A", "B", "F", "N", "T", "[", "]", "_",
       "a", "b", "e", "f", "i", "l", "n", "o", "p", "r", "s", "t", "u", "x" >>
Digits == << "0", "1", "2", "3", "4", "5", "6", "7", "8", "9" >>
DigitSet == { Digits[i] : i \in 1..10 }

Ord(c) == CHOOSE i \in 1..Len(CharOrder) : CharOrder[i] = c
DigitVal(c) == (CHOOSE i \in 1..10 : Digits[i] = c) - 1

\* str.lower() on one character
LowerChar(c) ==
    CASE c = "A" -> "a"
      [] c = "B" -> "b"
      [] c = "F" -> "f"
      [] c = "N" -> "n"
      [] c = "T" -> "t"
      [] OTHER -> c
LowerSeq(s) == [i \in 1..Len(s) |-> LowerChar(s[i])]

RECURSIVE SeqLt(_, _)
\* s1 < s2 for two str, by code point
SeqLt(s1, s2) ==
    IF s2 = <<>> THEN FALSE
    ELSE IF s1 = <<>> THEN TRUE
    ELSE IF Head(s1) = Head(s2) THEN SeqLt(Tail(s1), Tail(s2))
    ELSE Ord(Head(s1)) < Ord(Head(s2))

RECURSIVE ListLt(_, _)
\* l1 < l2 for two lists of str
ListLt(l1, l2) ==
    IF l2 = <<>> THEN FALSE
    ELSE IF l1 = <<>> THEN TRUE
    ELSE IF Head(l1) = Head(l2) THEN ListLt(Tail(l1), Tail(l2))
    ELSE SeqLt(Head(l1), Head(l2))

IsPrefix(p, s) == Len(p) <= Len(s) /\ SubSeq(s, 1, Len(p)) = p
IsSuffix(p, s) == Len(p) <= Len(s) /\ SubSeq(s, Len(s) - Len(p) + 1, Len(s)) = p
IsSubstring(p, s) ==
    \E i \in 0..(Len(s) - Len(p)) : SubSeq(s, i + 1, i + Len(p)) = p

RECURSIVE IntToChars(_)
IntToChars(n) ==
    IF n < 10 THEN << Digits[n + 1] >>
    ELSE IntToChars(n \div 10) \o << Digits[(n % 10) + 1] >>

RECURSIVE CharsToInt(_)
CharsToInt(s) ==
    IF s = <<>> THEN 0
    ELSE 10 * CharsToInt(SubSeq(s, 1, Len(s) - 1)) + DigitVal(s[Len(s)])

RECURSIVE ReprList(_)
\* the inside of repr(list of str): 'a', 'b'
ReprList(l) ==
    IF l = <<>> THEN <<>>
    ELSE << "'" >> \o Head(l) \o << "'" >>
         \o (IF Len(l) > 1 THEN << ",", " " >> ELSE <<>>)
         \o ReprList(Tail(l))

(***************************************************************************)
(* Python builtins used as type constructors and value transforms.         *)
(***************************************************************************)
\* str(v), as a character sequence
StrChars(v) ==
    CASE v.t = "str"  -> v.s
      [] v.t = "int"  -> IntToChars(v.n)
      [] v.t = "bool" -> IF v.n = 1 THEN << "T", "r", "u", "e" >>
                                    ELSE << "F", "a", "l", "s", "e" >>
      [] v.t = "list" -> << "[" >> \o ReprList(v.l) \o << "]" >>
      [] v.t = "dt"   -> IntToChars(v.n)
      [] OTHER        -> << "N", "o", "n", "e" >>
py_str(v) == S(StrChars(v))

\* int(v): ValueError for a str that is not a decimal numeral, TypeError
\* for a list or None
py_int(v) ==
    CASE v.t = "int"  -> v
      [] v.t = "bool" -> I(v.n)
      [] v.t = "str"  -> IF v.s # <<>> /\ \A i \in 1..Len(v.s) : v.s[i] \in DigitSet
                         THEN I(CharsToInt(v.s)) ELSE Err
      [] OTHER        -> Err

\* bool(v): truthiness
Truthy(v) ==
    CASE v.t = "str"  -> v.s # <<>>
      [] v.t \in {"int", "bool"} -> v.n # 0
      [] v.t = "list" -> v.l # <<>>
      [] v.t = "none" -> FALSE
      [] OTHER        -> TRUE
py_bool(v) == B(Truthy(v))

\* list(v): the characters of a str, a copy of a list, TypeError otherwise
py_list(v) ==
    CASE v.t = "str"  -> L([i \in 1..Len(v.s) |-> << v.s[i] >>])
      [] v.t = "list" -> v
      [] OTHER        -> Err

\* type(task_value)(value)
CoerceTo(t, v) ==
    CASE t = "str"  -> py_str(v)
      [] t = "int"  -> py_int(v)
      [] t = "bool" -> py_bool(v)
      [] t = "list" -> py_list(v)
      [] OTHER      -> Err

(***************************************************************************)
(* Comparison of Python values.                                            *)
(***************************************************************************)
\* a == b
PyEq(a, b) ==
    CASE IsInt(a) /\ IsInt(b)   -> a.n = b.n
      [] IsStr(a) /\ IsStr(b)   -> a.s = b.s
      [] IsList(a) /\ IsList(b) -> a.l = b.l
      [] a.t = "dt" /\ b.t = "dt" -> a.n = b.n
      [] OTHER                  -> a.t = b.t /\ a.t \in {"none", "match"}

\* a < b: TypeError unless both are numbers, both str or both list
PyLt(a, b) ==
    CASE IsInt(a) /\ IsInt(b)   -> B(a.n < b.n)
      [] IsStr(a) /\ IsStr(b)   -> B(SeqLt(a.s, b.s))
      [] IsList(a) /\ IsList(b) -> B(ListLt(a.l, b.l))
      [] a.t = "dt" /\ b.t = "dt" -> B(a.n < b.n)
      [] OTHER                  -> Err

PyLe(a, b) == IF IsErr(PyLt(a, b)) THEN Err ELSE B(PyLt(a, b) = TrueV \/ PyEq(a, b))
PyGt(a, b) == PyLt(b, a)
PyGe(a, b) == PyLe(b, a)

\* operator.contains(a, b), i.e. `b in a`
PyContains(a, b) ==
    CASE IsStr(a) /\ IsStr(b) -> B(IsSubstring(b.s, a.s))
      [] IsList(a)            -> B(\E i \in 1..Len(a.l) : PyEq(S(a.l[i]), b))
      [] OTHER                -> Err

\* a.startswith(b) and a.endswith(b) on the results of to_lower: a list has
\* no such method, and a list is no valid argument
StrStartswith(a, b) == IF IsStr(a) /\ IsStr(b) THEN B(IsPrefix(b.s, a.s)) ELSE Err
StrEndswith(a, b)   == IF IsStr(a) /\ IsStr(b) THEN B(IsSuffix(b.s, a.s)) ELSE Err

(***************************************************************************)
(* Pattern matching.  Patterns are modelled over literal characters and    *)
(* the wildcards of the alphabet: `*` and `?` for fnmatch, `.` and the     *)
(* quantifiers `*`, `?` (greedy or lazy) for regular expressions.          *)
(* Character sets (`[`) are outside the model.                             *)
(***************************************************************************)
RECURSIVE GlobMatch(_, _)
\* fnmatch.fnmatchcase(s, p): the whole of s matches the pattern p
GlobMatch(p, s) ==
    IF p = <<>> THEN s = <<>>
    ELSE IF Head(p) = "*"
         THEN GlobMatch(Tail(p), s) \/ (s # <<>> /\ GlobMatch(p, Tail(s)))
    ELSE IF Head(p) = "?"
         THEN s # <<>> /\ GlobMatch(Tail(p), Tail(s))
    ELSE s # <<>> /\ Head(p) = Head(s) /\ GlobMatch(Tail(p), Tail(s))

Quantifiers == {"*", "?"}
\* number of pattern characters taken by the first atom and its quantifier
ReAtomLen(p) ==
    IF Len(p) >= 2 /\ p[2] \in Quantifiers
    THEN (IF Len(p) >= 3 /\ p[3] = "?" THEN 3 ELSE 2)
    ELSE 1
ReRest(p) == SubSeq(p, ReAtomLen(p) + 1, Len(p))

RECURSIVE ReValid(_)
\* re.compile(p) succeeds: no quantifier without an atom to repeat
ReValid(p) ==
    IF p = <<>> THEN TRUE
    ELSE IF Head(p) \in Quantifiers \/ Head(p) = "[" THEN FALSE
    ELSE ReValid(ReRest(p))

RECURSIVE ReMatchAt(_, _)
\* the pattern p matches a prefix of s
ReMatchAt(p, s) ==
    IF p = <<>> THEN TRUE
    ELSE LET atomOK == s # <<>> /\ (Head(p) = "." \/ Head(p) = Head(s))
             quant  == IF ReAtomLen(p) >= 2 THEN p[2] ELSE ""
         IN  CASE quant = "*" -> ReMatchAt(ReRest(p), s)
                                 \/ (atomOK /\ ReMatchAt(p, Tail(s)))
               [] quant = "?" -> ReMatchAt(ReRest(p), s)
                                 \/ (atomOK /\ ReMatchAt(ReRest(p), Tail(s)))
               [] OTHER       -> atomOK /\ ReMatchAt(ReRest(p), Tail(s))

\* re.match(pattern, string): a Match object or None, never a bool;
\* TypeError unless both are str, re.error for an invalid pattern
ReMatch(pattern, string) ==
    IF ~(IsStr(pattern) /\ IsStr(string)) THEN Err
    ELSE IF ~ReValid(pattern.s) THEN Err
    ELSE IF ReMatchAt(pattern.s, string.s) THEN MatchV ELSE NoneV

\* fnmatchcase(name, pat): TypeError unless both are str
fnmatchcase(name, pat) ==
    IF IsStr(name) /\ IsStr(pat) THEN B(GlobMatch(pat.s, name.s)) ELSE Err

(***************************************************************************)
(* The binary operators of actionista/binary_operators.py.                 *)
(***************************************************************************)
to_lower(obj) ==
    IF IsList(obj) THEN L([i \in 1..Len(obj.l) |-> LowerSeq(obj.l[i])])
    ELSE S(LowerSeq(StrChars(obj)))

startswith(a, b)  == B(IsPrefix(StrChars(b), StrChars(a)))
istartswith(a, b) == StrStartswith(to_lower(a), to_lower(b))
endswith(a, b)    == B(IsSuffix(StrChars(b), StrChars(a)))
iendswith(a, b)   == StrEndswith(to_lower(a), to_lower(b))
icontains(a, b)   == PyContains(to_lower(a), to_lower(b))
in_(a, b)         == PyContains(b, a)
iin(a, b)         == PyContains(to_lower(b), to_lower(a))
ieq(a, b)         == B(PyEq(to_lower(a), to_lower(b)))
ine(a, b)         == B(~PyEq(to_lower(a), to_lower(b)))
ilt(a, b)         == PyLt(to_lower(a), to_lower(b))
igt(a, b)         == PyGt(to_lower(a), to_lower(b))
ige(a, b)         == PyGt(to_lower(a), to_lower(b))
re(a, b)          == ReMatch(b, a)
ire(a, b)         == ReMatch(to_lower(b), to_lower(a))
ifnmatch(a, b)    == fnmatchcase(to_lower(a), to_lower(b))

\* The names that getattr(binary_operators, op_name) resolves in the model.
\* `in` is set on the module by action_commands.py only.
OpNames ==
    { "eq", "ne", "lt", "le", "gt", "ge", "contains", "in_", "in",
      "startswith", "endswith", "glob", "re",
      "istartswith", "iendswith", "icontains", "iin",
      "ieq", "ine", "ilt", "igt", "ige", "ire", "iglob" }

\* op(a, b) for op = getattr(binary_operators, name)
OpApply(name, a, b) ==
    CASE name = "eq"          -> B(PyEq(a, b))
      [] name = "ne"          -> B(~PyEq(a, b))
      [] name = "lt"          -> PyLt(a, b)
      [] name = "le"          -> PyLe(a, b)
      [] name = "gt"          -> PyGt(a, b)
      [] name = "ge"          -> PyGe(a, b)
      [] name = "contains"    -> PyContains(a, b)
      [] name \in {"in_", "in"} -> in_(a, b)
      [] name = "startswith"  -> startswith(a, b)
      [] name = "endswith"    -> endswith(a, b)
      [] name = "glob"        -> fnmatchcase(a, b)
      [] name = "re"          -> re(a, b)
      [] name = "istartswith" -> istartswith(a, b)
      [] name = "iendswith"   -> iendswith(a, b)
      [] name = "icontains"   -> icontains(a, b)
      [] name = "iin"         -> iin(a, b)
      [] name = "ieq"         -> ieq(a, b)
      [] name = "ine"         -> ine(a, b)
      [] name = "ilt"         -> ilt(a, b)
      [] name = "igt"         -> igt(a, b)
      [] name = "ige"         -> ige(a, b)
      [] name = "ire"         -> ire(a, b)
      [] name = "iglob"       -> ifnmatch(a, b)
      [] OTHER                -> Err

\* `result != negate` for the result of an operator and the bool negate:
\* a Match object and None are different from both True and False
PyNe(result, negate) ==
    IF result.t = "bool" THEN (result.n = 1) # negate ELSE TRUE

(***************************************************************************)
(* Task dicts.  A task dict maps every key of Keys to a value, Absent for  *)
(* a key the dict does not hold.  The nested `due` dict is flattened: the  *)
(* key "due" holds DictV, None or Absent, and "due.date", "due.string",    *)
(* "due.is_recurring" hold the items of the nested dict.                   *)
(***************************************************************************)
Keys ==
    { "id", "content", "priority", "project_id", "checked", "in_history", "label_names",
      "due", "due.date", "due.string", "due.is_recurring",
      "due_date_utc", "date_string",
      "due_date", "due_date_dt", "due_date_safe_dt", "due_string", "due_string_safe",
      "is_recurring", "is_allday", "checked_str", "priority_str", "project_name" }

\* the dict holding the given set of <<key, value>> items
Dict(items) ==
    [k \in Keys |-> IF \E p \in items : p[1] = k
                    THEN (CHOOSE p \in items : p[1] = k)[2] ELSE Absent]
Has(d, k) == d[k].t # "absent"
\* d.get(k, default)
Get(d, k, default) == IF Has(d, k) THEN d[k] ELSE default

\* `'date' in taskkey`
KeyHasDate(taskkey) ==
    taskkey \in {"due.date", "due_date_utc", "date_string", "due_date",
                 "due_date_dt", "due_date_safe_dt"}

(***************************************************************************)
(* filter_tasks.  module is "action_commands" for the function of          *)
(* action_commands.py and "action_cli" for the copy in action_cli.py.      *)
(***************************************************************************)
Modules == {"action_commands", "action_cli"}

Placeholder  == S(<< "_" >>)
NonePlaceholder == S(<< "_", "_", "N", "o", "n", "e", "_", "_" >>)
IntName  == S(<< "i", "n", "t" >>)
StrName  == S(<< "s", "t", "r" >>)

\* default == '_' or default == '__None__'
IsPlaceholder(v) == v = Placeholder \/ v = NonePlaceholder

\* negate.lower() in ('false', '_', '__none__', '0')
NegateFalseWords ==
    { << "f", "a", "l", "s", "e" >>, << "_" >>,
      << "_", "_", "n", "o", "n", "e", "_", "_" >>, << "0" >> }

\* the bool that negate is normalised to (lines 214-218)
NormNegate(negate) ==
    IF IsStr(negate) /\ LowerSeq(negate.s) \in NegateFalseWords THEN FALSE
    ELSE Truthy(negate)

\* isinstance(value, str) and len(value) > 0 and value[0] == "!"
HasBang(value) == IsStr(value) /\ Len(value.s) > 0 /\ value.s[1] = "!"

\* value_transform(v) for the transform named by a str found in builtins;
\* any other name is outside the model
ApplyTransform(value_transform, v) ==
    CASE value_transform = IntName -> py_int(v)
      [] value_transform = StrName -> py_str(v)
      [] OTHER                     -> Err

\* getattr(binary_operators, op_name) succeeds
OpResolves(module, op_name) ==
    op_name \in OpNames /\ (op_name = "in" => module = "action_commands")

\* task_value of get_value, before any coercion of the comparison value
TaskValue(task, taskkey, default_) ==
    IF Has(task, "due") /\ taskkey \in {"due_date", "due_date_utc"}
    THEN \* due_dict = task.get('due') or {}; due_dict.get('date')
         IF task["due"].t = "dict" /\ taskkey = "due_date" /\ Has(task, "due.date")
         THEN task["due.date"] ELSE NoneV
    ELSE Get(task, taskkey, default_)

\* the condition under which get_value coerces the comparison value
Coerces_AllTypes(module, task_value, value) ==
    ~IsNone(task_value) /\ task_value.t # value.t

Coerces(module, task_value, value) ==
    /\ ~IsNone(task_value)
    /\ task_value.t # value.t
    /\ (module = "action_commands" => IsInt(task_value))

\* the comparison value after get_value: Err when the coercion raises
ValueAfter(module, task_value, value) ==
    IF Coerces(module, task_value, value)
    THEN CoerceTo(task_value.t, value) ELSE value

\* get_value(task, default_) with the comparison value as the earlier
\* records left it: the value of the task, and the comparison value (the
\* nonlocal `value`) afterwards
get_value_coerced(f, task_value, value) ==
    [task_value |-> task_value, value |-> ValueAfter(f.module, task_value, value)]
get_value(f, task, value) ==
    get_value_coerced(f, TaskValue(task, f.taskkey,
                                   IF f.missing = "default" THEN f.default ELSE NoneV),
                      value)

\* the operator is applied unless the coercion raised or the policy settles
\* a None value without it
Applied(f, g) == ~IsErr(g.value) /\ (f.missing = "default" \/ ~IsNone(g.task_value))

\* filter_eval with a null attribute passing under every policy but raise
filter_eval_NullKept(f, g, result) ==
    LET raised == \/ IsErr(g.value)
                  \/ (f.missing = "raise" /\ IsNone(g.task_value))
                  \/ IsErr(result)
    IN  [ task_value |-> g.task_value,
          value      |-> g.value,
          result     |-> result,
          raised     |-> raised,
          keep       |-> /\ ~raised
                         /\ IF Applied(f, g) THEN PyNe(result, f.negate) ELSE TRUE ]

\* One call of filter_eval(task) under the policy f.missing, g what
\* get_value returned and result what the operator returned (Absent when it
\* was not applied).  f holds the normalised arguments of filter_tasks.
filter_eval(f, g, result) ==
    LET raised == \/ IsErr(g.value)
                  \/ (f.missing = "raise" /\ IsNone(g.task_value))
                  \/ IsErr(result)
    IN  [ task_value |-> g.task_value,
          value      |-> g.value,
          result     |-> result,
          raised     |-> raised,
          keep       |-> /\ ~raised
                         /\ IF Applied(f, g) THEN PyNe(result, f.negate)
                                             ELSE f.missing = "include" ]

\* filter_eval(task) from the value get_value returned
filter_eval_op(f, g) ==
    filter_eval(f, g, IF Applied(f, g) THEN OpApply(f.op_name, g.task_value, g.value)
                      ELSE Absent)

RECURSIVE FilterLoop(_, _, _)
RECURSIVE FilterLoopFrom(_, _, _)
\* [task for task in tasks if filter_eval(task)]: the evaluations in list
\* order, up to and including the first one that raises
FilterLoop(f, tasks, value) ==
    IF tasks = <<>> THEN <<>>
    ELSE FilterLoopFrom(f, tasks, filter_eval_op(f, get_value(f, Head(tasks), value)))
\* the evaluations from the first task on, e the evaluation of that task
FilterLoopFrom(f, tasks, e) ==
    IF e.raised THEN << e >>
    ELSE << e >> \o FilterLoop(f, Tail(tasks), e.value)

\* a comprehension without its condition
KeptTasks_All(tasks, trace) == tasks

RECURSIVE KeptTasks(_, _)
\* the tasks whose evaluation returned true
KeptTasks(tasks, trace) ==
    IF tasks = <<>> \/ trace = <<>> THEN <<>>
    ELSE (IF Head(trace).keep THEN << Head(tasks) >> ELSE <<>>)
         \o KeptTasks(Tail(tasks), Tail(trace))

Missings == {"raise", "include", "exclude", "default"}

\* the arguments of filter_tasks after lines 200-262: placeholders, negate,
\* the leading `!` (action_commands.py only) and the value transform
FilterArgs(module, taskkey, op_name, value, missing, default, value_transform, negate) ==
    LET default1   == IF IsPlaceholder(default) THEN NoneV ELSE default
        transform1 == IF IsPlaceholder(value_transform) THEN NoneV ELSE value_transform
        negate1    == NormNegate(negate)
        bang       == module = "action_commands" /\ HasBang(value)
        value1     == IF bang THEN S(Tail(value.s)) ELSE value
        value2     == IF Truthy(transform1) THEN ApplyTransform(transform1, value1) ELSE value1
        default2   == IF Truthy(transform1) /\ Truthy(default1) /\ missing = "default"
                      THEN ApplyTransform(transform1, default1) ELSE default1
    IN  [ module   |-> module,
          taskkey  |-> taskkey,
          op_name  |-> op_name,
          missing  |-> missing,
          negate   |-> IF bang THEN ~negate1 ELSE negate1,
          value    |-> value2,
          default  |-> default2,
          raised   |-> \* value[-2:] of a value that is no str or list
                       \/ (op_name = "le" /\ KeyHasDate(taskkey)
                             /\ value.t \notin {"str", "list"})
                       \/ ~OpResolves(module, op_name)
                       \/ IsErr(value2)
                       \/ IsErr(default2)
                       \/ missing \notin Missings ]

\* what filter_tasks gives for the evaluations of trace: status "raised"
\* when the call raises
filter_returned(tasks, f, trace) ==
    LET raised == f.raised \/ (trace # <<>> /\ trace[Len(trace)].raised)
    IN  [ status |-> IF raised THEN "raised" ELSE "ok",
          tasks  |-> IF raised THEN <<>> ELSE KeptTasks(tasks, trace),
          args   |-> f,
          trace  |-> trace ]
\* the list comprehension of filter_tasks under the normalised arguments f
filter_comprehension(tasks, f) ==
    filter_returned(tasks, f, IF f.raised THEN <<>> ELSE FilterLoop(f, tasks, f.value))
\* filter_tasks(tasks, taskkey, op_name, value, missing, default,
\*              value_transform, negate)
filter_tasks(module, tasks, taskkey, op_name, value, missing, default, value_transform, negate) ==
    filter_comprehension(tasks,
                         FilterArgs(module, taskkey, op_name, value, missing, default,
                                    value_transform, negate))

(***************************************************************************)
(* The calls of filter_tasks that are checked: task lists over a pool of   *)
(* task dicts, and the arguments a command line or a caller can pass.      *)
(***************************************************************************)
TaskPool ==
    << Dict({ <<"id", I(1)>>, <<"content", S(<< "a", "b" >>)>>,
              <<"priority", I(1)>>, <<"project_id", I(12)>>,
              <<"label_names", L(<< << "a" >>, << "B" >> >>)>>,
              <<"is_recurring", TrueV>>,
              <<"due", DictV>>, <<"due.date", S(<< "1", "2" >>)>> }),
       Dict({ <<"id", I(2)>>, <<"content", S(<< "!", "A" >>)>>,
              <<"priority", NoneV>>, <<"project_id", S(<< "1", "2" >>)>>,
              <<"is_recurring", FalseV>>,
              <<"due", NoneV>>, <<"due_date", S(<< "1" >>)>> }),
       Dict({ <<"id", I(3)>>, <<"content", NoneV>>,
              <<"project_id", S(<< "a" >>)>>,
              <<"label_names", L(<< >>)>>,
              <<"due_date", S(<< "1" >>)>> }) >>

\* the lists of at most n different tasks of the pool
TaskLists(n) ==
    { l \in UNION { [1..k -> 1..Len(TaskPool)] : k \in 0..n } :
        \A i, j \in DOMAIN l : i # j => l[i] # l[j] }
TasksOf(l) == [i \in DOMAIN l |-> TaskPool[l[i]]]

FilterKeys == {"content", "priority", "project_id", "label_names", "due_date", "is_recurring"}
FilterOps == OpNames \cup {"frob"}
FilterValues ==
    { S(<< "a" >>), S(<< "!", "a" >>), S(<< "1", "2" >>), S(<< "a", "*" >>), I(1) }
FilterMissings == Missings \cup {"skip"}
FilterDefaults == { Placeholder, S(<< "1" >>) }
FilterTransforms == { Placeholder, IntName }
FilterNegates == { FalseV, TrueV }

VARIABLES call, ret, retNeg
fvars == << call, ret, retNeg >>

\* The state of a run of action_cli: the action groups of the command line,
\* the module whose ACTIONS table dispatches them, the place of the run, the
\* task list handed from action to action, Item.data and Item._custom_data
\* of every item, api.queue, the commands pushed to the server, the two
\* closure variables, the calls of handlers made and the lines printed.
VARIABLES chain, table, pc, pos, task_items, data, custom, queue, pushed,
          verbose, ask_before_commit, log, out
evars == << chain, table, pc, pos, task_items, data, custom, queue, pushed,
            verbose, ask_before_commit, log, out >>

\* A call of parse_argv: the token list, what the call gave, and what a
\* second call gave for the tokens written again from that.
VARIABLES argv, parsed, reparsed
pvars == << argv, parsed, reparsed >>

\* Calls of sort_tasks: the task list and the keys, what the call gave in
\* ascending and in descending order, and what a second call in the same
\* order gave for each of the two results.
VARIABLES sort_call, sorted_asc, sorted_desc, resorted_asc, resorted_desc
svars == << sort_call, sorted_asc, sorted_desc, resorted_asc, resorted_desc >>

\* One Item over fetches of the server's data: Item.data, Item._custom_data
\* (<<>> before the first derivation), the two before the last step, the
\* last step made and the number of fetches that changed the data.
VARIABLES d_data, d_custom, d_prev, d_last, d_changes
dvars == << d_data, d_custom, d_prev, d_last, d_changes >>

\* Calls of further single functions, each <<>> while there is none: a
\* binary operator with its operands (op_run), a shortcut filter with its
\* arguments (shortcut_run), special_is_filter with its arguments and the
\* clock (is_run), and filter_tasks on a list and on its two parts
\* (split_run).  Each holds the call and, once made, what it gave.
VARIABLES op_run, shortcut_run, is_run, split_run
zvars == << op_run, shortcut_run, is_run, split_run >>

\* the variables of the calls of single functions other than filter_tasks
xvars == << pvars, svars, dvars, zvars >>
vars == << call, ret, retNeg, chain, table, pc, pos, task_items, data, custom,
           queue, pushed, verbose, ask_before_commit, log, out, xvars >>

\* no call of parse_argv
NoParse == argv = <<>> /\ parsed = <<>> /\ reparsed = <<>>
\* no call of sort_tasks
NoSort ==
    /\ sort_call = <<>> /\ sorted_asc = <<>> /\ sorted_desc = <<>>
    /\ resorted_asc = <<>> /\ resorted_desc = <<>>
\* no Item followed
NoDerive ==
    /\ d_data = <<>> /\ d_custom = <<>> /\ d_prev = <<>>
    /\ d_last = "none" /\ d_changes = 0
\* no call of the further single functions
NoOther == op_run = <<>> /\ shortcut_run = <<>> /\ is_run = <<>> /\ split_run = <<>>
\* none of these calls
NoCall == NoParse /\ NoSort /\ NoDerive /\ NoOther

\* no run of action_cli: the state of its variables while filter_tasks is
\* called on its own
NoRun ==
    /\ chain = <<>> /\ table = "none" /\ pc = "none" /\ pos = 0
    /\ task_items = <<>> /\ data = <<>> /\ custom = <<>> /\ queue = <<>>
    /\ pushed = <<>> /\ verbose = 0 /\ ask_before_commit = TRUE
    /\ log = <<>> /\ out = <<>>

NoRet == [status |-> "none", tasks |-> <<>>, args |-> <<>>, trace |-> <<>>]

\* the call with the arguments of c
CallFilter(c, negate) ==
    filter_tasks(c.module, c.tasks, c.taskkey, c.op_name, c.value, c.missing,
                 c.default, c.value_transform, negate)

\* a default is passed with missing="default" only: the other policies
\* do not read it
FilterInit ==
    /\ call \in { c \in [ module : Modules,
                          tasks : { TasksOf(l) : l \in TaskLists(MaxTasks) },
                          taskkey : FilterKeys,
                          op_name : FilterOps,
                          value : FilterValues,
                          missing : FilterMissings,
                          default : FilterDefaults \cup {NoneV},
                          value_transform : FilterTransforms,
                          negate : FilterNegates ] :
                    (c.missing = "default") = (c.default # NoneV) }
    /\ ret = NoRet
    /\ retNeg = NoRet
    /\ NoRun
    /\ NoCall

\* filter_tasks is called with the arguments of call
Filter ==
    /\ ret.status = "none"
    /\ ret' = CallFilter(call, call.negate)
    /\ UNCHANGED << call, retNeg >>
    /\ UNCHANGED << evars, xvars >>

\* the same call with the opposite negate flag
FilterNegated ==
    /\ ret.status # "none"
    /\ call.missing = "exclude"
    /\ retNeg.status = "none"
    /\ retNeg' = CallFilter(call, B(~NormNegate(call.negate)))
    /\ UNCHANGED << call, ret >>
    /\ UNCHANGED << evars, xvars >>

FilterNext == Filter \/ FilterNegated
SpecFilter == FilterInit /\ [][FilterNext]_vars

(***************************************************************************)
(* The items of the local store.  Every todoist.models.Item has its raw    *)
(* dict, Item.data, and the dict the derivation writes, Item._custom_data. *)
(* A store is a record [data, custom, queue, raised]: data and custom map  *)
(* the id of an item to these dicts, queue is api.queue, and raised tells  *)
(* that the operation that produced the store raised an exception.         *)
(***************************************************************************)
\* d.update(items) for a set of <<key, value>> items
Update(d, items) ==
    [k \in Keys |-> IF \E p \in items : p[1] = k
                    THEN (CHOOSE p \in items : p[1] = k)[2] ELSE d[k]]
\* d.pop(k, None) for every k of keys
PopAll(d, keys) == [k \in Keys |-> IF k \in keys THEN Absent ELSE d[k]]

\* the keys of tasks_utils.CUSTOM_FIELDS that the model holds
CUSTOM_FIELDS ==
    { "due_date", "due_string_safe", "due_date_dt", "due_date_safe_dt", "checked_str" }

\* safe_date: the due date of a task that has none
NO_DUEDATE_DATETIME == Dt(99)

\* dateutil.parser.parse / dateparser.parse of a date str.  A numeral
\* stands for a timestamp; any other str does not parse.
ParseDate(v) ==
    IF IsStr(v) /\ v.s # <<>> /\ \A i \in 1..Len(v.s) : v.s[i] \in DigitSet
    THEN Dt(CharsToInt(v.s)) ELSE Err
\* local_time_to_utc(dt, fmt=ISO_8601_FMT): the timestamp str of a datetime
local_time_to_utc(dt) == S(IntToChars(dt.n))
\* get_rfc3339_datestr(new_date): the timestamp str of a human date str
get_rfc3339_datestr(new_date) ==
    IF IsErr(ParseDate(new_date)) THEN Err ELSE local_time_to_utc(ParseDate(new_date))

\* add_task_date_fields(input_dict, output_dict): [raised, d], d the
\* output dict afterwards.  A call that raises leaves its caller's chain
\* aborted; the output dict is then given as it was.
add_task_date_fields(input_dict, output_dict) ==
    LET due    == Get(input_dict, "due", NoneV)
        utc    == Get(input_dict, "due_date_utc", NoneV)
        branch == IF Truthy(due) THEN "due"
                  ELSE IF Truthy(utc) THEN "utc" ELSE "none"
        raised1 ==
            \/ /\ branch = "due"
               /\ \/ ~Has(input_dict, "due.date")
                  \/ ~Has(input_dict, "due.string")
                  \/ ~Has(input_dict, "due.is_recurring")
                  \/ IsErr(ParseDate(input_dict["due.date"]))
            \/ /\ branch = "utc"
               /\ \/ ~Has(input_dict, "date_string")
                  \/ IsErr(ParseDate(utc))
        out1 ==
            CASE branch = "due" ->
                   Update(output_dict,
                          { <<"due_date", input_dict["due.date"]>>,
                            <<"due_string", input_dict["due.string"]>>,
                            <<"due_string_safe", input_dict["due.string"]>>,
                            <<"date_string", input_dict["due.string"]>>,
                            <<"is_recurring", input_dict["due.is_recurring"]>>,
                            <<"is_allday", B(Len(input_dict["due.date"].s) <= 10)>>,
                            <<"due_date_dt", ParseDate(input_dict["due.date"])>> })
              [] branch = "utc" ->
                   Update(output_dict,
                          { <<"due_date", utc>>,
                            <<"due_string", input_dict["date_string"]>>,
                            <<"due_string_safe", input_dict["date_string"]>>,
                            <<"is_allday", B(IsSuffix(<< "5", "9" >>, utc.s))>>,
                            <<"due_date_dt", ParseDate(utc)>> })
              [] OTHER ->
                   Update(output_dict,
                          { <<"is_allday", TrueV>>,
                            <<"due_string_safe", Get(input_dict, "date_string", NoneV)>> })
        priority == Get(input_dict, "priority", I(1))
        raised2  == ~IsInt(priority)
        out2 ==
            Update(out1,
                   { <<"due_date_safe_dt", Get(out1, "due_date_dt", NO_DUEDATE_DATETIME)>>,
                     <<"checked_str",
                       IF Truthy(Get(input_dict, "checked", I(0)))
                       THEN S(<< "[", "x", "]" >>) ELSE S(<< "[", " ", "]" >>)>>,
                     <<"priority_str", S(<< "p" >> \o IntToChars(5 - priority.n))>> })
    IN  IF raised1 \/ raised2 THEN [raised |-> TRUE, d |-> output_dict]
        ELSE [raised |-> FALSE, d |-> out2]

\* api.projects.all(): the projects of the account, by id
Projects == { [id |-> I(1), name |-> S(<< "A" >>)] }
\* na, the project name of a task whose project is not found
NA == S(<< "N", "/", "A" >>)

\* a project name added to the one an earlier run left
add_project_fields_Accumulating(input_dict, output_dict) ==
    IF ~Has(input_dict, "project_id") THEN [raised |-> TRUE, d |-> output_dict]
    ELSE [ raised |-> FALSE,
           d |-> Update(output_dict,
                        { <<"project_name",
                            S(StrChars(Get(output_dict, "project_name", S(<<>>)))
                                \o << "A" >>)>> }) ]

\* inject_tasks_project_fields for one task: [raised, d]
add_project_fields(input_dict, output_dict) ==
    IF ~Has(input_dict, "project_id") THEN [raised |-> TRUE, d |-> output_dict]
    ELSE LET pid   == input_dict["project_id"]
             found == { p \in Projects : PyEq(p.id, pid) \/ PyEq(p.id, py_str(pid)) }
         IN  [ raised |-> FALSE,
               d |-> Update(output_dict,
                            { <<"project_name",
                                IF found = {} THEN NA
                                ELSE (CHOOSE p \in found : TRUE).name>> }) ]

RECURSIVE inject_tasks_date_fields(_, _)
\* inject_tasks_date_fields(tasks): the store after the derivation of the
\* date fields of the tasks in list order, up to the first one that raises
inject_tasks_date_fields(st, tasks) ==
    IF tasks = <<>> \/ st.raised THEN st
    ELSE LET id == Head(tasks)
             r  == add_task_date_fields(st.data[id], st.custom[id])
         IN  inject_tasks_date_fields(
                 [st EXCEPT !.custom[id] = r.d, !.raised = r.raised], Tail(tasks))

RECURSIVE inject_tasks_project_fields(_, _)
\* inject_tasks_project_fields(tasks, projects)
inject_tasks_project_fields(st, tasks) ==
    IF tasks = <<>> \/ st.raised THEN st
    ELSE LET id == Head(tasks)
             r  == add_project_fields(st.data[id], st.custom[id])
         IN  inject_tasks_project_fields(
                 [st EXCEPT !.custom[id] = r.d, !.raised = r.raised], Tail(tasks))

(***************************************************************************)
(* The todoist-python library: the methods of todoist.models.Item that the *)
(* handlers call, and TodoistAPI.commit.  A command of api.queue is a      *)
(* record [type, id, args], args the set of <<key, value>> items sent.     *)
(***************************************************************************)
\* the keyword argument due={...}: the new dict replaces the old one
DueDict(items) ==
    { <<"due", DictV>> }
    \cup { << k, IF \E p \in items : p[1] = k
                 THEN (CHOOSE p \in items : p[1] = k)[2] ELSE Absent >> :
           k \in {"due.date", "due.string", "due.is_recurring"} }

Command(type, id, args) == [type |-> type, id |-> id, args |-> args]

\* an update that also writes the dict the derivation keeps
Item_update_Local(st, id, kwargs) ==
    [st EXCEPT !.queue = Append(@, Command("item_update", id, kwargs)),
               !.data[id] = Update(@, kwargs),
               !.custom[id] = Update(@, kwargs)]

\* Item.update(**kwargs): queue item_update, then self.data.update(kwargs)
Item_update(st, id, kwargs) ==
    [st EXCEPT !.queue = Append(@, Command("item_update", id, kwargs)),
               !.data[id] = Update(@, kwargs)]
\* a close that queues nothing
Item_close_Unqueued(st, id) == st

\* Item.close(): queue item_close
Item_close(st, id) ==
    [st EXCEPT !.queue = Append(@, Command("item_close", id, {}))]
\* Item.complete(): queue item_complete, then self.data['checked'] = 1
Item_complete(st, id) ==
    [st EXCEPT !.queue = Append(@, Command("item_complete", id, {})),
               !.data[id] = Update(@, { <<"checked", I(1)>> })]
\* Item.uncomplete(): queue item_uncomplete, then self.data['checked'] = 0
Item_uncomplete(st, id) ==
    [st EXCEPT !.queue = Append(@, Command("item_uncomplete", id, {})),
               !.data[id] = Update(@, { <<"checked", I(0)>> })]
\* Item.archive(): queue item_archive, then self.data['in_history'] = 1
Item_archive(st, id) ==
    [st EXCEPT !.queue = Append(@, Command("item_archive", id, {})),
               !.data[id] = Update(@, { <<"in_history", I(1)>> })]

\* the item as the server returns it after a command: a closed or completed
\* item is checked, and a due dict sent without a date gets the date the
\* server reads in its string
ServerItem(d, cmd) ==
    CASE cmd.type \in {"item_close", "item_complete"} ->
           Update(d, { <<"checked", I(1)>> })
      [] cmd.type = "item_update" /\ Truthy(Get(d, "due", NoneV))
           /\ ~Has(d, "due.date") ->
           Update(d, { <<"due.date",
                         IF IsErr(ParseDate(Get(d, "due.string", NoneV)))
                         THEN S(<< "9" >>) ELSE d["due.string"]>>,
                       <<"due.is_recurring", Get(d, "due.is_recurring", FalseV)>> })
      [] OTHER -> d

RECURSIVE ServerItems(_, _)
\* the raw dicts after the server has answered the commands of a queue
ServerItems(items, cmds) ==
    IF cmds = <<>> THEN items
    ELSE LET cmd == Head(cmds)
         IN  ServerItems([items EXCEPT ![cmd.id] = ServerItem(@, cmd)], Tail(cmds))

\* a sync that drops the commands of the queue
api_sync_Discarding(st) == [st EXCEPT !.queue = <<>>]
\* api.sync(): fetches the updates of the server; the queue is neither
\* pushed nor emptied
api_sync(st) == st

\* api.commit(): the commands of the queue are pushed and the queue is
\* emptied; the items are as the server returns them
api_commit(st) == [st EXCEPT !.data = ServerItems(st.data, st.queue), !.queue = <<>>]

\* a working list that stays the one the handler was given
state_items_Kept(st, tasks) == tasks
\* tasks = api.state['items']
state_items(st, tasks) == [i \in 1..Len(st.data) |-> i]

\* a prompt that is shown whatever -y did
commit_asks_Always(ask) == TRUE
\* `if ask_before_commit:`
commit_asks(ask) == ask

\* what can be typed at the prompt
Answers == { <<>>, << "n" >>, << "N", "o" >> }
\* an answer that declines only with a small n
declines_LowerOnly(answer) == answer # <<>> /\ answer[1] = "n"
\* answer = input(...) or 'Y'; answer[0].lower() == 'n'
declines(answer) == answer # <<>> /\ answer[1] \in {"n", "N"}

\* the lines of commit on stdout: the prompt with the answer typed after
\* it, the line of a declined commit and the line of one carried out
PromptLine(n, answer) == << S(<< "P", "R", "O", "M", "P", "T" >>), I(n), S(answer) >>
AbortingLine == << S(<< "A", "B", "O", "R", "T", "I", "N", "G" >>) >>
CommittingLine(n) == << S(<< "C", "o", "m", "m", "i", "t", "t", "i", "n", "g" >>), I(n) >>

(***************************************************************************)
(* The action handlers.  A handler takes the store, the task list (a       *)
(* sequence of item ids) and the positional arguments of its action group  *)
(* and gives [st, tasks, printed, gave]: the store and the returned list,   *)
(* what it wrote to stdout, and the kind of value returned ("list", or     *)
(* "None" for a handler that ends without `return tasks`).  st.raised      *)
(* tells that the call raised.                                             *)
(***************************************************************************)
\* a handler that ends without a return statement
Result_NoReturn(st, tasks, printed) ==
    [st |-> st, tasks |-> tasks, printed |-> printed, gave |-> "None"]

\* `return tasks` at the end of a handler
Result(st, tasks, printed) ==
    [st |-> st, tasks |-> tasks, printed |-> printed, gave |-> "list"]
Raise(st, tasks) == Result([st EXCEPT !.raised = TRUE], tasks, <<>>)

\* the characters of an argument of the command line
ArgChars(x) ==
    CASE x = "a"   -> << "a" >>
      [] x = "b"   -> << "b" >>
      [] x = "ab"  -> << "a", "b" >>
      [] x = "!a"  -> << "!", "a" >>
      [] x = "2"   -> << "2" >>
      [] x = "3"   -> << "3" >>
      [] x = "_"   -> << "_" >>
      [] x = "int" -> << "i", "n", "t" >>
      [] x = "A"   -> << "A" >>
      [] x = "a*"  -> << "a", "*" >>
      [] x = "4"   -> << "4" >>
      [] x = "p4"  -> << "p", "4" >>
      [] OTHER     -> << "?" >>
ArgV(x) == S(ArgChars(x))

\* [getattr(task, data_attr) for task in tasks] with data_attr="_custom_data"
TaskDicts(st, tasks) == [i \in DOMAIN tasks |-> st.custom[tasks[i]]]

\* the handler's result from what filter_tasks returned
filter_result(st, tasks, r) ==
    IF r.status = "raised" THEN Raise(st, tasks)
    ELSE Result(st, KeptTasks(tasks, r.trace), <<>>)
\* ACTIONS['filter'](tasks, *args, verbose=verbose)
call_filter_tasks(module, st, tasks, args) ==
    IF Len(args) < 3 \/ Len(args) > 8 THEN Raise(st, tasks)
    ELSE filter_result(st, tasks,
             filter_tasks(module, TaskDicts(st, tasks),
                          args[1], args[2], ArgV(args[3]),
                          IF Len(args) >= 4 THEN args[4] ELSE "exclude",
                          IF Len(args) >= 5 THEN ArgV(args[5]) ELSE NoneV,
                          IF Len(args) >= 6 THEN ArgV(args[6]) ELSE NoneV,
                          IF Len(args) >= 7 THEN ArgV(args[7]) ELSE FalseV))

\* DEFAULT_TASK_PRINT_FMT: the fields of the default print format
DEFAULT_TASK_PRINT_FMT ==
    << "project_name", "due_date_safe_dt", "priority_str", "checked_str",
       "content", "due_string" >>
\* the replacement fields of a format str of the command line
FormatFields(print_fmt) ==
    CASE print_fmt = "{content}"           -> << "content" >>
      [] print_fmt = "{due_date} {content}" -> << "due_date", "content" >>
      [] OTHER                              -> <<>>

\* print_fmt.format(task=task, **task) for every task dict: KeyError for a
\* field that a dict does not hold
print_rows(fields, task_dicts) ==
    IF \E i \in DOMAIN task_dicts : \E j \in DOMAIN fields :
           ~Has(task_dicts[i], fields[j])
    THEN [raised |-> TRUE, rows |-> <<>>]
    ELSE [raised |-> FALSE,
          rows |-> [i \in DOMAIN task_dicts |->
                       [j \in DOMAIN fields |-> task_dicts[i][fields[j]]]]]

\* print_tasks(tasks, print_fmt, header, sep)
print_tasks(st, tasks, args) ==
    IF Len(args) > 3 THEN Raise(st, tasks)
    ELSE LET fields == IF Len(args) >= 1 THEN FormatFields(args[1])
                       ELSE DEFAULT_TASK_PRINT_FMT
             p == print_rows(fields, TaskDicts(st, tasks))
         IN  IF p.raised THEN Raise(st, tasks)
             ELSE Result(st, tasks, << p.rows >>)

\* operator.itemgetter(*keys)(d) is the value for one key, a tuple of the
\* values for several.  a < b for two such sort keys: "lt", "ge" or "raise"
RECURSIVE TupleCmp(_, _)
TupleCmp(a, b) ==
    IF a = <<>> THEN "ge"
    ELSE IF PyEq(Head(a), Head(b)) THEN TupleCmp(Tail(a), Tail(b))
    ELSE LET r == PyLt(Head(a), Head(b))
         IN  IF IsErr(r) THEN "raise" ELSE IF r = TrueV THEN "lt" ELSE "ge"
KeyCmp(a, b) ==
    IF Len(a) = 1
    THEN LET r == PyLt(a[1], b[1])
         IN  IF IsErr(r) THEN "raise" ELSE IF r = TrueV THEN "lt" ELSE "ge"
    ELSE TupleCmp(a, b)

\* a descending sort made by reversing the ascending one
sorted_ReverseAfter(tasks, key, reverse) ==
    LET n == Len(tasks)
        before(i, j) ==
            KeyCmp(key[i], key[j]) = "lt" \/ (KeyCmp(key[j], key[i]) # "lt" /\ i < j)
        rank(i) == 1 + Cardinality({ j \in 1..n : j # i /\ before(j, i) })
        asc == [r \in 1..n |-> tasks[CHOOSE i \in 1..n : rank(i) = r]]
    IN  IF \E i, j \in 1..n : i # j /\ KeyCmp(key[i], key[j]) = "raise"
        THEN [raised |-> TRUE, tasks |-> tasks]
        ELSE [raised |-> FALSE,
              tasks |-> IF reverse THEN [r \in 1..n |-> asc[n + 1 - r]] ELSE asc]

\* a sort that puts records with equal keys in the reverse of their order
sorted_Unstable(tasks, key, reverse) ==
    LET n == Len(tasks)
        before(i, j) ==
            IF reverse
            THEN KeyCmp(key[j], key[i]) = "lt"
                   \/ (KeyCmp(key[i], key[j]) # "lt" /\ i > j)
            ELSE KeyCmp(key[i], key[j]) = "lt"
                   \/ (KeyCmp(key[j], key[i]) # "lt" /\ i > j)
        rank(i) == 1 + Cardinality({ j \in 1..n : j # i /\ before(j, i) })
    IN  IF \E i, j \in 1..n : i # j /\ KeyCmp(key[i], key[j]) = "raise"
        THEN [raised |-> TRUE, tasks |-> tasks]
        ELSE [raised |-> FALSE,
              tasks |-> [r \in 1..n |-> tasks[CHOOSE i \in 1..n : rank(i) = r]]]

\* sorted(tasks, key=keyfunc, reverse=reverse): stable in both directions.
\* The call is taken to raise when any two of the keys do not compare.
sorted(tasks, key, reverse) ==
    LET n == Len(tasks)
        before(i, j) ==
            IF reverse
            THEN KeyCmp(key[j], key[i]) = "lt"
                   \/ (KeyCmp(key[i], key[j]) # "lt" /\ i < j)
            ELSE KeyCmp(key[i], key[j]) = "lt"
                   \/ (KeyCmp(key[j], key[i]) # "lt" /\ i < j)
        rank(i) == 1 + Cardinality({ j \in 1..n : j # i /\ before(j, i) })
    IN  IF \E i, j \in 1..n : i # j /\ KeyCmp(key[i], key[j]) = "raise"
        THEN [raised |-> TRUE, tasks |-> tasks]
        ELSE [raised |-> FALSE,
              tasks |-> [r \in 1..n |-> tasks[CHOOSE i \in 1..n : rank(i) = r]]]

\* keys="project_name,priority_str,content"
DEFAULT_TASK_SORT_KEYS == << "project_name", "priority_str", "content" >>

\* sort_tasks(tasks, keys, order); args[1] holds keys.split(',')
sort_tasks(st, tasks, keys, order) ==
    LET dicts == TaskDicts(st, tasks)
    IN  IF \E i \in DOMAIN dicts : \E j \in DOMAIN keys : ~Has(dicts[i], keys[j])
        THEN Raise(st, tasks)
        ELSE LET r == sorted(tasks,
                             [i \in DOMAIN dicts |->
                                 [j \in DOMAIN keys |-> dicts[i][keys[j]]]],
                             order = "descending")
             IN  IF r.raised THEN Raise(st, tasks) ELSE Result(st, r.tasks, <<>>)

\* tasks_utils.is_recurring(task): the value of due.is_recurring, or
\* whether the due string holds `every`
is_recurring(d) ==
    IF d["due"].t = "dict" /\ Has(d, "due.is_recurring") THEN d["due.is_recurring"]
    ELSE LET s1 == Get(d, "date_string", NoneV)
             s2 == Get(d, "due_string", NoneV)
             due_string == IF Truthy(s1) THEN s1 ELSE IF Truthy(s2) THEN s2 ELSE S(<<>>)
         IN  B(IsStr(due_string)
               /\ IsSubstring(<< "e", "v", "e", "r", "y" >>, due_string.s))
\* [task for task in tasks if is_recurring(task) != negate] with negate=False
get_recurring_tasks(st, tasks) ==
    SelectSeq(tasks, LAMBDA id : ~PyEq(is_recurring(st.custom[id]), FalseV))

RECURSIVE update_date_string(_, _, _)
\* the loop of reschedule_tasks with timezone='date_string'
update_date_string(st, tasks, new_date) ==
    IF tasks = <<>> THEN st
    ELSE LET id == Head(tasks)
             st1 == IF Has(st.data[id], "due")
                    THEN Item_update(st, id, DueDict({ <<"due.string", new_date>> }))
                    ELSE Item_update(st, id, { <<"date_string", new_date>> })
         IN  update_date_string(st1, Tail(tasks), new_date)

RECURSIVE update_due_date_utc(_, _, _)
\* the loop of reschedule_tasks with another timezone: task['date_string']
\* is a KeyError for an item without that key
update_due_date_utc(st, tasks, new_date_utc) ==
    IF tasks = <<>> THEN st
    ELSE LET id == Head(tasks)
         IN  IF ~Has(st.data[id], "date_string") THEN [st EXCEPT !.raised = TRUE]
             ELSE update_due_date_utc(
                      Item_update(st, id, { <<"due_date_utc", new_date_utc>>,
                                            <<"date_string", st.data[id]["date_string"]>> }),
                      Tail(tasks), new_date_utc)

\* action_cli.reschedule_tasks(tasks, new_date, timezone, update_local,
\* check_recurring).  An argument of the command line is a str: any
\* update_local given is true, and a check_recurring given is not True.
reschedule_tasks_cli(st, tasks, args) ==
    IF Len(args) < 1 \/ Len(args) > 4 THEN Raise(st, tasks)
    ELSE
    LET new_date     == ArgV(args[1])
        timezone     == IF Len(args) >= 2 THEN args[2] ELSE "date_string"
        update_local == Len(args) >= 3 /\ args[3] # ""
        recurring    == IF Len(args) >= 4 THEN <<>> ELSE get_recurring_tasks(st, tasks)
        warning      == print_rows(DEFAULT_TASK_PRINT_FMT, TaskDicts(st, recurring))
        printed      == IF recurring = <<>> THEN <<>> ELSE << warning.rows >>
    IN  IF recurring # <<>> /\ warning.raised THEN Raise(st, tasks)
        ELSE IF timezone = "date_string"
        THEN Result(update_date_string(st, tasks, new_date), tasks, printed)
        ELSE IF IsErr(ParseDate(new_date)) THEN Raise(st, tasks)
        ELSE LET st1 == update_due_date_utc(st, tasks,
                                            local_time_to_utc(ParseDate(new_date)))
             IN  IF st1.raised THEN Result(st1, tasks, printed)
                 ELSE IF update_local
                 THEN Result(inject_tasks_date_fields(st1, tasks), tasks, printed)
                 ELSE Result(st1, tasks, printed)

RECURSIVE update_due(_, _, _, _)
\* the loop of action_commands.reschedule_tasks
update_due(st, tasks, new_date, date_rfc3339) ==
    IF tasks = <<>> THEN st
    ELSE LET id == Head(tasks)
             st1 == IF Truthy(is_recurring(st.custom[id]))
                    THEN Item_update(st, id,
                             DueDict({ <<"due.date", date_rfc3339>>,
                                       <<"due.string",
                                         Get(st.custom[id], "due_string_safe", NoneV)>>,
                                       <<"due.is_recurring", TrueV>> }))
                    ELSE Item_update(st, id, DueDict({ <<"due.string", new_date>> }))
         IN  update_due(st1, Tail(tasks), new_date, date_rfc3339)

\* action_commands.reschedule_tasks(tasks, new_date)
reschedule_tasks(st, tasks, args) ==
    IF Len(args) # 1 \/ IsErr(get_rfc3339_datestr(ArgV(args[1]))) THEN Raise(st, tasks)
    ELSE Result(update_due(st, tasks, ArgV(args[1]), get_rfc3339_datestr(ArgV(args[1]))),
                tasks, <<>>)

RECURSIVE ForEach(_, _, _)
\* for task in tasks: task.<method>()
ForEach(st, tasks, method) ==
    IF tasks = <<>> THEN st
    ELSE LET id == Head(tasks)
             st1 == CASE method = "close"      -> Item_close(st, id)
                      [] method = "complete"   -> Item_complete(st, id)
                      [] method = "uncomplete" -> Item_uncomplete(st, id)
                      [] method = "archive"    -> Item_archive(st, id)
                      [] OTHER                 -> [st EXCEPT !.raised = TRUE]
         IN  IF st1.raised THEN st1 ELSE ForEach(st1, Tail(tasks), method)

\* mark_tasks_completed(tasks, method): action_cli.py knows method 'close'
\* only, action_commands.py 'item_close', 'complete' and 'item_complete' too
mark_tasks_completed(module, st, tasks, args) ==
    IF Len(args) > 1 THEN Raise(st, tasks)
    ELSE LET method == IF Len(args) = 1 THEN args[1] ELSE "close"
             m == CASE method = "close" -> "close"
                    [] module = "action_commands" /\ method = "item_close" -> "close"
                    [] module = "action_commands"
                         /\ method \in {"complete", "item_complete"} -> "complete"
                    [] OTHER -> "unknown"
         IN  Result(ForEach(st, tasks, m), tasks, <<>>)

RECURSIVE update_content(_, _, _)
\* the loop of rename_tasks: task.data["content"] is printed first
update_content(st, tasks, new_content) ==
    IF tasks = <<>> THEN st
    ELSE LET id == Head(tasks)
         IN  IF ~Has(st.data[id], "content") THEN [st EXCEPT !.raised = TRUE]
             ELSE update_content(Item_update(st, id, { <<"content", new_content>> }),
                                 Tail(tasks), new_content)

\* rename_tasks(tasks, new_content)
rename_tasks(st, tasks, args) ==
    IF Len(args) # 1 THEN Raise(st, tasks)
    ELSE Result(update_content(st, tasks, ArgV(args[1])), tasks, <<>>)

\* close_tasks(tasks), uncomplete_tasks(tasks), archive_tasks(tasks)
close_tasks(st, tasks, args) ==
    IF Len(args) # 0 THEN Raise(st, tasks)
    ELSE Result(ForEach(st, tasks, "close"), tasks, <<>>)
uncomplete_tasks(st, tasks, args) ==
    IF Len(args) # 0 THEN Raise(st, tasks)
    ELSE Result(ForEach(st, tasks, "uncomplete"), tasks, <<>>)
archive_tasks(st, tasks, args) ==
    IF Len(args) # 0 THEN Raise(st, tasks)
    ELSE Result(ForEach(st, tasks, "archive"), tasks, <<>>)

(***************************************************************************)
(* action_cli: the run of a chain of action groups.                        *)
(***************************************************************************)
\* the keys of ACTIONS in action_cli.py and in action_commands.py
SharedActions ==
    { "print", "sort", "filter", "has", "is", "not", "due",
      "contains", "startswith", "endswith", "glob", "iglob", "eq", "ieq",
      "content", "name", "project", "priority", "priority-eq", "priority-ge",
      "priority-str", "priority-str-eq", "p1", "p2", "p3", "p4",
      "reschedule", "mark-completed",
      "verbose", "v", "delete-cache", "sync", "commit", "show-queue" }
\* the keys that action_cli() adds to the table
ClosureActions ==
    { "v", "verbose", "y", "yes", "no-prompt", "sync", "commit",
      "show-queue", "print-queue", "delete-cache", "h", "help", "-help" }
ActionTable(module) ==
    SharedActions \cup ClosureActions
    \cup (IF module = "action_cli" THEN { "mark-as-done" }
          ELSE { "label", "reschedule-due-date", "reschedule-by-string",
                 "reschedule-fixed-timezone", "rename", "close", "reopen",
                 "uncomplete", "archive", "complete_and_update" })

\* a check of the first action group only
unrecognized_actions_FirstOnly(module, action_groups) ==
    SelectSeq(IF action_groups = <<>> THEN <<>> ELSE << Head(action_groups) >>,
              LAMBDA g : g.name \notin ActionTable(module))

\* [agroup[0] for agroup in action_groups if agroup[0] not in ACTIONS]
unrecognized_actions(module, action_groups) ==
    SelectSeq(action_groups, LAMBDA g : g.name \notin ActionTable(module))

\* api.state['items'] at startup: an item of the v8 API that recurs, an
\* item of the v7 API, and an item without a due date
Items0 ==
    << Dict({ <<"id", I(1)>>, <<"content", S(<< "a", "b" >>)>>,
              <<"priority", I(1)>>, <<"checked", I(0)>>, <<"project_id", I(1)>>,
              <<"due", DictV>>, <<"due.date", S(<< "2" >>)>>,
              <<"due.string", S(<< "e", "v", "e", "r", "y" >>)>>,
              <<"due.is_recurring", TrueV>> }),
       Dict({ <<"id", I(2)>>, <<"content", S(<< "b" >>)>>,
              <<"priority", I(4)>>, <<"checked", I(0)>>, <<"project_id", I(1)>>,
              <<"due_date_utc", S(<< "1" >>)>>, <<"date_string", S(<< "b" >>)>> }),
       Dict({ <<"id", I(3)>>, <<"content", S(<< "a" >>)>>,
              <<"priority", I(2)>>, <<"checked", I(1)>>, <<"project_id", I(2)>>,
              <<"due", NoneV>> }) >>
AllItems == [i \in 1..Len(Items0) |-> i]

\* the store after the two injections of action_cli's startup: the first
\* one makes _custom_data a deepcopy of data
Store0 ==
    inject_tasks_project_fields(
        inject_tasks_date_fields(
            [data |-> Items0, custom |-> Items0, queue |-> <<>>, raised |-> FALSE],
            AllItems),
        AllItems)

\* the action groups that parse_argv can hand to the run
Group(name, args) == [name |-> name, args |-> args]
ActionGroups ==
    { Group("filter", << "due_date", "le", "2" >>),
      Group("filter", << "content", "startswith", "b" >>),
      Group("sort", << "content", "descending" >>),
      Group("print", <<>>),
      Group("print", << "{due_date} {content}" >>),
      Group("reschedule", << "3" >>),
      Group("reschedule", << "3", "local", "True" >>),
      Group("mark-completed", <<>>),
      Group("rename", << "b" >>),
      Group("close", <<>>),
      Group("reopen", <<>>),
      Group("archive", <<>>),
      Group("sync", <<>>),
      Group("commit", <<>>),
      Group("y", <<>>),
      Group("v", <<>>),
      Group("show-queue", <<>>),
      Group("frobnicate", <<>>) }

Init ==
    /\ chain \in UNION { [1..n -> ActionGroups] : n \in 0..MaxChain }
    /\ table \in Modules
    /\ pc = "start"
    /\ pos = 1
    /\ task_items = AllItems
    /\ data = Store0.data
    /\ custom = Store0.custom
    /\ queue = <<>>
    /\ pushed = <<>>
    /\ verbose = 0
    /\ ask_before_commit = TRUE
    /\ log = <<>>
    /\ out = <<>>
    /\ call = <<>> /\ ret = NoRet /\ retNeg = NoRet
    /\ NoCall

\* `if unrecognized_actions: print(...); return`
Reject ==
    /\ pc = "start"
    /\ unrecognized_actions(table, chain) # <<>>
    /\ pc' = "rejected"
    /\ UNCHANGED << chain, table, pos, task_items, data, custom, queue, pushed,
                    verbose, ask_before_commit, log, out >>
    /\ UNCHANGED << fvars, xvars >>

\* the chain is valid: an empty one becomes -help, and the loop starts
Begin ==
    /\ pc = "start"
    /\ unrecognized_actions(table, chain) = <<>>
    /\ chain' = IF chain = <<>> THEN << Group("help", <<>>) >> ELSE chain
    /\ pc' = "run"
    /\ UNCHANGED << table, pos, task_items, data, custom, queue, pushed,
                    verbose, ask_before_commit, log, out >>
    /\ UNCHANGED << fvars, xvars >>

\* the loop is at an action group with one of the names
At(names) == pc = "run" /\ chain[pos].name \in names
Store == [data |-> data, custom |-> custom, queue |-> queue, raised |-> FALSE]

\* a loop that goes on after a handler raised
HandlerRaised_Continues ==
    /\ pc' = IF pos = Len(chain) THEN "done" ELSE "run"
    /\ pos' = pos + 1
    /\ UNCHANGED task_items

\* an exception of a handler is not caught: it ends the run
HandlerRaised ==
    /\ pc' = "aborted"
    /\ UNCHANGED << task_items, pos >>

\* `assert task_items is not None` fails: the AssertionError ends the run
AssertionFailed ==
    /\ pc' = "aborted"
    /\ UNCHANGED << task_items, pos >>

\* task_items = action_func(task_items, *action_args, verbose=verbose):
\* the handler's effects, and the next turn of the loop
Invoked(res) ==
    /\ data' = res.st.data
    /\ custom' = res.st.custom
    /\ queue' = res.st.queue
    /\ out' = out \o res.printed
    /\ log' = Append(log, [ pos      |-> pos,
                            name     |-> chain[pos].name,
                            received |-> task_items,
                            returned |-> res.tasks,
                            gave     |-> res.gave,
                            raised   |-> res.st.raised ])
    /\ IF res.st.raised THEN HandlerRaised
       ELSE IF res.gave = "None" THEN AssertionFailed
       ELSE /\ task_items' = res.tasks
            /\ pos' = pos + 1
            /\ pc' = IF pos = Len(chain) THEN "done" ELSE "run"
    /\ UNCHANGED << chain, table >>
    /\ UNCHANGED << fvars, xvars >>

ActionFilter ==
    /\ At({"filter", "has"})
    /\ Invoked(call_filter_tasks(table, Store, task_items, chain[pos].args))
    /\ UNCHANGED << pushed, verbose, ask_before_commit >>

ActionSort ==
    /\ At({"sort"})
    /\ LET args == chain[pos].args
       IN  Invoked(IF Len(args) > 2 THEN Raise(Store, task_items)
                   ELSE sort_tasks(Store, task_items,
                                   IF Len(args) >= 1 THEN << args[1] >>
                                   ELSE DEFAULT_TASK_SORT_KEYS,
                                   IF Len(args) >= 2 THEN args[2] ELSE "ascending"))
    /\ UNCHANGED << pushed, verbose, ask_before_commit >>

ActionPrint ==
    /\ At({"print"})
    /\ Invoked(print_tasks(Store, task_items, chain[pos].args))
    /\ UNCHANGED << pushed, verbose, ask_before_commit >>

ActionReschedule ==
    /\ At({"reschedule"})
    /\ Invoked(IF table = "action_cli"
               THEN reschedule_tasks_cli(Store, task_items, chain[pos].args)
               ELSE reschedule_tasks(Store, task_items, chain[pos].args))
    /\ UNCHANGED << pushed, verbose, ask_before_commit >>

ActionMarkCompleted ==
    /\ At({"mark-completed", "mark-as-done"})
    /\ Invoked(mark_tasks_completed(table, Store, task_items, chain[pos].args))
    /\ UNCHANGED << pushed, verbose, ask_before_commit >>

ActionRename ==
    /\ At({"rename"})
    /\ Invoked(rename_tasks(Store, task_items, chain[pos].args))
    /\ UNCHANGED << pushed, verbose, ask_before_commit >>

ActionClose ==
    /\ At({"close"})
    /\ Invoked(close_tasks(Store, task_items, chain[pos].args))
    /\ UNCHANGED << pushed, verbose, ask_before_commit >>

ActionReopen ==
    /\ At({"reopen", "uncomplete"})
    /\ Invoked(uncomplete_tasks(Store, task_items, chain[pos].args))
    /\ UNCHANGED << pushed, verbose, ask_before_commit >>

ActionArchive ==
    /\ At({"archive"})
    /\ Invoked(archive_tasks(Store, task_items, chain[pos].args))
    /\ UNCHANGED << pushed, verbose, ask_before_commit >>

\* increment_verbosity(tasks, *kwargs) takes no keyword argument: the call
\* with verbose=verbose is a TypeError
ActionVerbose ==
    /\ At({"v", "verbose"})
    /\ Invoked(Raise(Store, task_items))
    /\ UNCHANGED << pushed, verbose, ask_before_commit >>

\* disable_confirmation_prompt(tasks, **kwargs)
ActionYes ==
    /\ At({"y", "yes", "no-prompt"})
    /\ IF chain[pos].args # <<>>
       THEN Invoked(Raise(Store, task_items)) /\ UNCHANGED ask_before_commit
       ELSE Invoked(Result(Store, task_items, <<>>)) /\ ask_before_commit' = FALSE
    /\ UNCHANGED << pushed, verbose >>

\* a fetch after which no field is derived
reinject_Skipped(st, dates_first) == st

\* the store after `task.data.pop(k, None)` for the custom fields of every
\* item and the two injections over api.state['items']
reinject(st, dates_first) ==
    LET st1 == [st EXCEPT !.data = [id \in DOMAIN st.data |->
                                       PopAll(st.data[id], CUSTOM_FIELDS)]]
        items == [i \in 1..Len(st.data) |-> i]
    IN  IF dates_first
        THEN inject_tasks_project_fields(inject_tasks_date_fields(st1, items), items)
        ELSE inject_tasks_date_fields(inject_tasks_project_fields(st1, items), items)

\* sync(tasks, **kwargs)
sync(st, tasks, args) ==
    IF args # <<>> THEN Raise(st, tasks)
    ELSE LET st1 == reinject(api_sync(st), TRUE)
         IN  Result(st1, state_items(st1, tasks), <<>>)

\* commit(tasks, *, raise_on_error=True, verbose=0) with the closure
\* variable ask_before_commit and the answer typed at the prompt, if it is
\* shown: an answer that begins with n leaves everything as it is
commit(st, tasks, args, ask, answer) ==
    LET prompt == IF commit_asks(ask)
                  THEN << << PromptLine(Len(st.queue), answer) >> >> ELSE <<>>
    IN  IF args # <<>> THEN Raise(st, tasks)
        ELSE IF commit_asks(ask) /\ declines(answer)
        THEN Result(st, tasks, prompt \o << << AbortingLine >> >>)
        ELSE LET st1 == reinject(api_commit(st), FALSE)
             IN  Result(st1, state_items(st1, tasks),
                        prompt \o << << CommittingLine(Len(st.queue)) >> >>)

ActionSync ==
    /\ At({"sync"})
    /\ Invoked(sync(Store, task_items, chain[pos].args))
    /\ UNCHANGED << pushed, verbose, ask_before_commit >>

\* the answer is read only when the prompt is shown
ActionCommit ==
    /\ At({"commit"})
    /\ \E answer \in Answers :
        /\ (chain[pos].args # <<>> \/ ~commit_asks(ask_before_commit)) => answer = <<>>
        /\ Invoked(commit(Store, task_items, chain[pos].args, ask_before_commit, answer))
        /\ pushed' = IF chain[pos].args # <<>>
                        \/ (commit_asks(ask_before_commit) /\ declines(answer))
                     THEN pushed ELSE pushed \o queue
    /\ UNCHANGED << verbose, ask_before_commit >>

\* show_queue(tasks): pprint(api.queue), printed as the ids of its commands
ActionShowQueue ==
    /\ At({"show-queue", "print-queue"})
    /\ Invoked(IF chain[pos].args # <<>> THEN Raise(Store, task_items)
               ELSE Result(Store, task_items,
                           << [i \in DOMAIN queue |-> << I(queue[i].id) >>] >>))
    /\ UNCHANGED << pushed, verbose, ask_before_commit >>

\* print_help(tasks, cmd=None)
ActionHelp ==
    /\ At({"h", "help", "-help"})
    /\ Invoked(IF Len(chain[pos].args) > 1 THEN Raise(Store, task_items)
               ELSE Result(Store, task_items, <<>>))
    /\ UNCHANGED << pushed, verbose, ask_before_commit >>

Next ==
    \/ Reject
    \/ Begin
    \/ ActionFilter
    \/ ActionSort
    \/ ActionPrint
    \/ ActionReschedule
    \/ ActionMarkCompleted
    \/ ActionRename
    \/ ActionClose
    \/ ActionReopen
    \/ ActionArchive
    \/ ActionVerbose
    \/ ActionYes
    \/ ActionSync
    \/ ActionCommit
    \/ ActionShowQueue
    \/ ActionHelp

Spec == Init /\ [][Next]_vars

(***************************************************************************)
(* parse_argv (action_cli_core/action_cli_argv_parser.py, and the same     *)
(* function in todoist/action_cli.py).  A token is a sequence of           *)
(* characters.  A dict is the sequence of its <<key, value>> items in      *)
(* insertion order.  The call gives [raised, base_args, base_kwargs,       *)
(* action_groups], a group being [name, args, kwargs].                     *)
(***************************************************************************)
\* d[k] = v: a key the dict holds keeps its place
DictSet(d, k, v) ==
    IF \E i \in DOMAIN d : d[i][1] = k
    THEN [i \in DOMAIN d |-> IF d[i][1] = k THEN << k, v >> ELSE d[i]]
    ELSE Append(d, << k, v >>)

\* '=' in arg
HasEq(arg) == \E i \in DOMAIN arg : arg[i] = "="
\* the place of the first '=' of arg
FirstEq(arg) == CHOOSE i \in DOMAIN arg : arg[i] = "=" /\ \A j \in 1..(i - 1) : arg[j] # "="

\* a split at the last '='
SplitKV_Last(arg) ==
    LET i == CHOOSE i \in DOMAIN arg : arg[i] = "=" /\ \A j \in (i + 1)..Len(arg) : arg[j] # "="
    IN  << SubSeq(arg, 1, i - 1), SubSeq(arg, i + 1, Len(arg)) >>

\* k, v = arg.split("=", 1)
SplitKV(arg) ==
    << SubSeq(arg, 1, FirstEq(arg) - 1), SubSeq(arg, FirstEq(arg) + 1, Len(arg)) >>

\* the name of an action kept with its dash
ActionName_Whole(arg) == arg

\* action_name = arg[1:]
ActionName(arg) == Tail(arg)

\* a positional token added to the base whatever group is open
AddArg_ToBase(st, arg) ==
    [st EXCEPT !.base_args = Append(@, arg)]

\* current_group_args.append(arg)
AddArg(st, arg) ==
    IF st.action_groups = <<>>
    THEN [st EXCEPT !.base_args = Append(@, arg)]
    ELSE [st EXCEPT !.action_groups[Len(st.action_groups)].args = Append(@, arg)]

\* current_group_kwargs[k] = v
AddKwarg(st, k, v) ==
    IF st.action_groups = <<>>
    THEN [st EXCEPT !.base_kwargs = DictSet(@, k, v)]
    ELSE [st EXCEPT !.action_groups[Len(st.action_groups)].kwargs = DictSet(@, k, v)]

\* one turn of `for arg in argv`: arg[0] of an empty token is an IndexError
parse_arg(st, arg) ==
    IF arg = <<>> THEN [st EXCEPT !.raised = TRUE]
    ELSE IF arg[1] = "-"
    THEN [st EXCEPT !.action_groups =
              Append(@, [name |-> ActionName(arg), args |-> <<>>, kwargs |-> <<>>])]
    ELSE IF HasEq(arg) THEN AddKwarg(st, SplitKV(arg)[1], SplitKV(arg)[2])
    ELSE AddArg(st, arg)

RECURSIVE parse_loop(_, _)
\* the loop of parse_argv from the state st on
parse_loop(st, args) ==
    IF args = <<>> \/ st.raised THEN st
    ELSE parse_loop(parse_arg(st, Head(args)), Tail(args))

\* parse_argv(argv) for a list of tokens
parse_argv(tokens) ==
    parse_loop([raised |-> FALSE, base_args |-> <<>>, base_kwargs |-> <<>>,
                action_groups |-> <<>>], tokens)

\* the tokens a command line is made of
ArgvTokens ==
    { <<>>, << "-" >>, << "-", "a" >>, << "-", "-", "a" >>, << "-", "a", "=", "b" >>,
      << "a" >>, << "b" >>, << "a", "-" >>,
      << "a", "=", "b" >>, << "a", "=", "a" >>, << "b", "=", "a" >>,
      << "a", "=", "b", "=", "a" >>, << "=", "a" >>, << "a", "=" >>, << "=", "-", "a" >> }

ParseInit ==
    /\ argv \in UNION { [1..n -> ArgvTokens] : n \in 0..MaxArgs }
    /\ parsed = <<>>
    /\ reparsed = <<>>
    /\ call = <<>> /\ ret = NoRet /\ retNeg = NoRet
    /\ NoRun
    /\ NoSort
    /\ NoDerive
    /\ NoOther

\* parse_argv is called with the tokens of argv
Parse ==
    /\ parsed = <<>>
    /\ parsed' = << parse_argv(argv) >>
    /\ UNCHANGED << argv, reparsed >>
    /\ UNCHANGED << fvars, evars, svars, dvars, zvars >>

\* the key=value tokens of a dict
KwTokens(d) == [i \in DOMAIN d |-> d[i][1] \o << "=" >> \o d[i][2]]
RECURSIVE GroupTokens(_)
\* the tokens of a list of action groups
GroupTokens(groups) ==
    IF groups = <<>> THEN <<>>
    ELSE << << "-" >> \o Head(groups).name >> \o Head(groups).args
            \o KwTokens(Head(groups).kwargs) \o GroupTokens(Tail(groups))
\* the tokens written again from what parse_argv returned
Serialize(r) == r.base_args \o KwTokens(r.base_kwargs) \o GroupTokens(r.action_groups)

\* parse_argv is called with the tokens written from its own result
Reparse ==
    /\ parsed # <<>>
    /\ ~parsed[1].raised
    /\ reparsed = <<>>
    /\ reparsed' = << parse_argv(Serialize(parsed[1])) >>
    /\ UNCHANGED << argv, parsed >>
    /\ UNCHANGED << fvars, evars, svars, dvars, zvars >>

ParseNext == Parse \/ Reparse
SpecArgv == ParseInit /\ [][ParseNext]_vars

(***************************************************************************)
(* Calls of sort_tasks on lists of tasks of which several share a key      *)
(* value.                                                                  *)
(***************************************************************************)
\* the tasks that are sorted, by id
SortPool ==
    << Dict({ <<"id", I(1)>>, <<"content", S(<< "b" >>)>>, <<"priority", I(1)>> }),
       Dict({ <<"id", I(2)>>, <<"content", S(<< "a" >>)>>, <<"priority", I(1)>> }),
       Dict({ <<"id", I(3)>>, <<"content", S(<< "a" >>)>>, <<"priority", I(2)>> }),
       Dict({ <<"id", I(4)>>, <<"content", S(<< "a", "b" >>)>>, <<"priority", NoneV>> }) >>
SortStore == [data |-> SortPool, custom |-> SortPool, queue |-> <<>>, raised |-> FALSE]
\* the lists of at most n different tasks of the pool, in any order
SortLists(n) ==
    { l \in UNION { [1..k -> 1..Len(SortPool)] : k \in 0..n } :
        \A i, j \in DOMAIN l : i # j => l[i] # l[j] }
\* keys.split(',') for the keys of a call
SortKeys ==
    { << "content" >>, << "priority" >>, << "priority", "content" >>,
      << "content", "id" >>, << "due_date" >> }

SortInit ==
    /\ sort_call \in [ tasks : SortLists(MaxSort), keys : SortKeys ]
    /\ sorted_asc = <<>> /\ sorted_desc = <<>>
    /\ resorted_asc = <<>> /\ resorted_desc = <<>>
    /\ call = <<>> /\ ret = NoRet /\ retNeg = NoRet
    /\ NoRun
    /\ NoParse
    /\ NoDerive
    /\ NoOther

\* sort_tasks(tasks, keys, order) on the tasks of the pool: <<result>>
SortCall(tasks, keys, order) == << sort_tasks(SortStore, tasks, keys, order) >>

\* sort_tasks(tasks, keys, "ascending")
SortAscending ==
    /\ sorted_asc = <<>>
    /\ sorted_asc' = SortCall(sort_call.tasks, sort_call.keys, "ascending")
    /\ UNCHANGED << sort_call, sorted_desc, resorted_asc, resorted_desc >>
    /\ UNCHANGED << fvars, evars, pvars, dvars, zvars >>

\* sort_tasks(tasks, keys, "descending")
SortDescending ==
    /\ sorted_desc = <<>>
    /\ sorted_desc' = SortCall(sort_call.tasks, sort_call.keys, "descending")
    /\ UNCHANGED << sort_call, sorted_asc, resorted_asc, resorted_desc >>
    /\ UNCHANGED << fvars, evars, pvars, dvars, zvars >>

\* the list sorted in ascending order is sorted again in ascending order
ResortAscending ==
    /\ sorted_asc # <<>> /\ ~sorted_asc[1].st.raised
    /\ resorted_asc = <<>>
    /\ resorted_asc' = SortCall(sorted_asc[1].tasks, sort_call.keys, "ascending")
    /\ UNCHANGED << sort_call, sorted_asc, sorted_desc, resorted_desc >>
    /\ UNCHANGED << fvars, evars, pvars, dvars, zvars >>

\* the list sorted in descending order is sorted again in descending order
ResortDescending ==
    /\ sorted_desc # <<>> /\ ~sorted_desc[1].st.raised
    /\ resorted_desc = <<>>
    /\ resorted_desc' = SortCall(sorted_desc[1].tasks, sort_call.keys, "descending")
    /\ UNCHANGED << sort_call, sorted_asc, sorted_desc, resorted_asc >>
    /\ UNCHANGED << fvars, evars, pvars, dvars, zvars >>

SortNext == SortAscending \/ SortDescending \/ ResortAscending \/ ResortDescending
SpecSort == SortInit /\ [][SortNext]_vars

(***************************************************************************)
(* One Item over the fetches of sync and commit.  api.sync() writes the    *)
(* data the server sends into the data dict of the Item the store holds    *)
(* already; the Item, and with it its _custom_data, stays.                 *)
(***************************************************************************)
\* what the server can send for the item: with a due dict, without a due
\* date, with the due date of the v7 API, and with other plain fields
ServerData ==
    { Dict({ <<"id", I(1)>>, <<"content", S(<< "a" >>)>>, <<"priority", I(1)>>,
             <<"checked", I(0)>>, <<"project_id", I(1)>>,
             <<"due", DictV>>, <<"due.date", S(<< "2" >>)>>,
             <<"due.string", S(<< "e", "v", "e", "r", "y" >>)>>,
             <<"due.is_recurring", TrueV>> }),
      Dict({ <<"id", I(1)>>, <<"content", S(<< "a" >>)>>, <<"priority", I(1)>>,
             <<"checked", I(0)>>, <<"project_id", I(1)>>, <<"due", NoneV>> }),
      Dict({ <<"id", I(1)>>, <<"content", S(<< "a" >>)>>, <<"priority", I(1)>>,
             <<"checked", I(0)>>, <<"project_id", I(1)>>,
             <<"due_date_utc", S(<< "1" >>)>>, <<"date_string", S(<< "b" >>)>> }),
      Dict({ <<"id", I(1)>>, <<"content", S(<< "b" >>)>>, <<"priority", I(4)>>,
             <<"checked", I(1)>>, <<"project_id", I(2)>>,
             <<"due", DictV>>, <<"due.date", S(<< "3" >>)>>,
             <<"due.string", S(<< "b" >>)>>, <<"due.is_recurring", FalseV>> }),
      Dict({ <<"id", I(1)>>, <<"content", S(<< "b" >>)>>, <<"priority", I(4)>>,
             <<"checked", I(1)>>, <<"project_id", I(2)>>, <<"due", NoneV>> }) }

\* the store that holds the one item
ItemStore(d, c) == [data |-> << d >>, custom |-> << c >>, queue |-> <<>>, raised |-> FALSE]

\* the derivation of action_cli's startup for an Item without _custom_data:
\* get_input_output_dicts makes it a deepcopy of Item.data
first_derivation(d) ==
    inject_tasks_project_fields(
        inject_tasks_date_fields(ItemStore(d, d), << 1 >>), << 1 >>)

DeriveInit ==
    /\ d_data \in ServerData
    /\ d_custom = <<>>
    /\ d_prev = <<>>
    /\ d_last = "fetched"
    /\ d_changes = 0
    /\ call = <<>> /\ ret = NoRet /\ retNeg = NoRet
    /\ NoRun
    /\ NoParse
    /\ NoSort
    /\ NoOther

\* the Item after a derivation that gave the store st
Derived(st, step) ==
    /\ d_data' = st.data[1]
    /\ d_custom' = << st.custom[1] >>
    /\ d_prev' = << [data |-> d_data, custom |-> d_custom] >>
    /\ d_last' = IF st.raised THEN "raised" ELSE step
    /\ UNCHANGED << fvars, evars, pvars, svars, zvars >>

\* inject_tasks_date_fields and inject_tasks_project_fields at startup
Derive ==
    /\ d_last = "fetched"
    /\ Derived(first_derivation(d_data), "derived")
    /\ UNCHANGED d_changes

\* sync or commit while the server holds other data for the item: the data
\* are written into Item.data, and the fields are derived again
Refetch ==
    /\ d_last \in {"derived", "changed", "rederived"}
    /\ d_changes < MaxChanges
    /\ \E new \in ServerData \ { d_data } : \E dates_first \in BOOLEAN :
         Derived(reinject(ItemStore(new, d_custom[1]), dates_first), "changed")
    /\ d_changes' = d_changes + 1

\* sync or commit while the server holds the same data for the item
Rederive ==
    /\ d_last \in {"derived", "changed"}
    /\ \E dates_first \in BOOLEAN :
         Derived(reinject(ItemStore(d_data, d_custom[1]), dates_first), "rederived")
    /\ UNCHANGED d_changes

DeriveNext == Derive \/ Refetch \/ Rederive
SpecDerive == DeriveInit /\ [][DeriveNext]_vars

(***************************************************************************)
(* Calls of the case-insensitive operators of binary_operators.py, each    *)
(* next to the call of the case-sensitive operator on the operands that    *)
(* to_lower gives.                                                         *)
(***************************************************************************)
\* the case-insensitive operators and the operator each is named after
InsensitiveOps ==
    { "ieq", "ine", "ilt", "igt", "ige", "icontains", "iin", "istartswith",
      "iendswith", "iglob", "ire" }
Counterpart(name) ==
    CASE name = "ieq"         -> "eq"
      [] name = "ine"         -> "ne"
      [] name = "ilt"         -> "lt"
      [] name = "igt"         -> "gt"
      [] name = "ige"         -> "ge"
      [] name = "icontains"   -> "contains"
      [] name = "iin"         -> "in"
      [] name = "istartswith" -> "startswith"
      [] name = "iendswith"   -> "endswith"
      [] name = "iglob"       -> "glob"
      [] name = "ire"         -> "re"

\* the operands: str in both cases, a pattern, lists of str, an int, None
Operands ==
    { S(<< "a" >>), S(<< "A" >>), S(<< "A", "b" >>), S(<< "b" >>),
      S(<< "A", "*" >>), L(<< << "A" >> >>), L(<< << "a" >>, << "B" >> >>),
      I(1), NoneV }

OpInit ==
    /\ op_run \in { << c >> : c \in [ name : InsensitiveOps, a : Operands,
                                       b : Operands, ret : {<<>>}, low : {<<>>} ] }
    /\ shortcut_run = <<>> /\ is_run = <<>> /\ split_run = <<>>
    /\ call = <<>> /\ ret = NoRet /\ retNeg = NoRet
    /\ NoRun
    /\ NoParse
    /\ NoSort
    /\ NoDerive

\* op(a, b) for the case-insensitive operator
OpCall ==
    /\ op_run # <<>>
    /\ op_run[1].ret = <<>>
    /\ op_run' = << [op_run[1] EXCEPT
                       !.ret = << OpApply(op_run[1].name, op_run[1].a, op_run[1].b) >>] >>
    /\ UNCHANGED << shortcut_run, is_run, split_run >>
    /\ UNCHANGED << fvars, evars, pvars, svars, dvars >>

\* the case-sensitive operator on to_lower(a) and to_lower(b)
OpCounterpart ==
    /\ op_run # <<>>
    /\ op_run[1].low = <<>>
    /\ op_run' = << [op_run[1] EXCEPT
                       !.low = << OpApply(Counterpart(op_run[1].name),
                                          to_lower(op_run[1].a),
                                          to_lower(op_run[1].b)) >>] >>
    /\ UNCHANGED << shortcut_run, is_run, split_run >>
    /\ UNCHANGED << fvars, evars, pvars, svars, dvars >>

OpNext == OpCall \/ OpCounterpart
SpecOps == OpInit /\ [][OpNext]_vars

(***************************************************************************)
(* The shortcut filters of action_commands.py that pin the attribute:      *)
(* -content, -project, -priority and -priority-str.                        *)
(***************************************************************************)
\* what a call gives that raised before filter_tasks ran
RaisedCall == [status |-> "raised", tasks |-> <<>>, args |-> <<>>, trace |-> <<>>]

\* generic_args_filter_adaptor(tasks, taskkey, args, default_op=...,
\* value_transform=...): further arguments go to filter_tasks as positional
\* arguments next to tasks, where the first of them meets the keyword
\* argument taskkey (TypeError)
generic_args_filter_adaptor(tasks, taskkey, args, default_op, value_transform) ==
    IF Len(args) < 1 THEN RaisedCall
    ELSE LET negate == args[1] = "not"
             args1  == IF negate THEN Tail(args) ELSE args
         IN  IF Len(args1) = 0 THEN RaisedCall
             ELSE LET op_name == IF Len(args1) = 1 THEN default_op ELSE args1[1]
                      value   == IF Len(args1) = 1 THEN args1[1] ELSE args1[2]
                      args2   == SubSeq(args1, 3, Len(args1))
                  IN  IF args2 # <<>> THEN RaisedCall
                      ELSE filter_tasks("action_commands", tasks, taskkey, op_name,
                                        ArgV(value), "exclude", NoneV,
                                        value_transform, B(negate))

\* content_filter, project_filter, priority_filter and priority_str_filter
shortcut_filter(name, tasks, args) ==
    CASE name = "content" ->
           generic_args_filter_adaptor(tasks, "content", args, "iglob", NoneV)
      [] name = "project" ->
           generic_args_filter_adaptor(tasks, "project_name", args, "iglob", NoneV)
      [] name = "priority" ->
           generic_args_filter_adaptor(tasks, "priority", args, "eq", IntName)
      [] name = "priority-str" ->
           generic_args_filter_adaptor(tasks, "priority_str", args, "eq", NoneV)

\* the attribute, the default operator and the transform that a shortcut pins
PinnedKey(name) ==
    CASE name = "content" -> "content"
      [] name = "project" -> "project_name"
      [] name = "priority" -> "priority"
      [] name = "priority-str" -> "priority_str"
PinnedOp(name) == IF name \in {"content", "project"} THEN "iglob" ELSE "eq"
PinnedTransform(name) == IF name = "priority" THEN IntName ELSE NoneV

\* the -filter action on the pinned attribute that the arguments of a
\* shortcut stand for: -filter <key> <op> <value> <missing> <default>
\* <transform> <negate>
equivalent_filter(name, tasks, args) ==
    LET negate == args # <<>> /\ args[1] = "not"
        rest   == IF negate THEN Tail(args) ELSE args
    IN  IF Len(rest) = 0 THEN RaisedCall
        ELSE IF Len(rest) = 1
        THEN filter_tasks("action_commands", tasks, PinnedKey(name), PinnedOp(name),
                          ArgV(rest[1]), "exclude", NoneV, PinnedTransform(name),
                          B(negate))
        ELSE filter_tasks("action_commands", tasks, PinnedKey(name), rest[1],
                          ArgV(rest[2]),
                          IF Len(rest) >= 3 THEN rest[3] ELSE "exclude",
                          IF Len(rest) >= 4 THEN ArgV(rest[4]) ELSE NoneV,
                          IF Len(rest) >= 5 THEN ArgV(rest[5]) ELSE PinnedTransform(name),
                          B(negate))

\* the arguments after the optional `not`: a value, an operator and a
\* value, and these with a missing policy, a default and a transform
ShortcutValues == { "a*", "A", "4", "p4" }
ShortcutOps == { "startswith", "eq", "ge" }
ShortcutBodies ==
    { <<>> }
    \cup { << v >> : v \in ShortcutValues }
    \cup { << o, v >> : o \in ShortcutOps, v \in ShortcutValues }
    \cup { << o, v, "include" >> : o \in ShortcutOps, v \in ShortcutValues }
    \cup { << o, v, "default", "4", "int" >> : o \in ShortcutOps, v \in ShortcutValues }
ShortcutArgs == ShortcutBodies \cup { << "not" >> \o b : b \in ShortcutBodies }
\* the lists of at most n different items of the store
ItemLists(n) ==
    { l \in UNION { [1..k -> 1..Len(Items0)] : k \in 0..n } :
        \A i, j \in DOMAIN l : i # j => l[i] # l[j] }

\* the items, of the list of ids, that the call r of filter_tasks kept
KeptItems(ids, r) == IF r.status = "raised" THEN <<>> ELSE KeptTasks(ids, r.trace)

ShortcutInit ==
    /\ shortcut_run \in { << c >> : c \in [ name : {"content", "project", "priority",
                                                    "priority-str"},
                                            args : ShortcutArgs,
                                            tasks : ItemLists(MaxTasks),
                                            ret : {<<>>}, ref : {<<>>} ] }
    /\ op_run = <<>> /\ is_run = <<>> /\ split_run = <<>>
    /\ call = <<>> /\ ret = NoRet /\ retNeg = NoRet
    /\ NoRun
    /\ NoParse
    /\ NoSort
    /\ NoDerive

\* ACTIONS[name](tasks, *args)
ShortcutCall ==
    /\ shortcut_run # <<>>
    /\ shortcut_run[1].ret = <<>>
    /\ LET c == shortcut_run[1]
           r == shortcut_filter(c.name, TaskDicts(Store0, c.tasks), c.args)
       IN  shortcut_run' = << [c EXCEPT !.ret = << [status |-> r.status,
                                                     tasks |-> KeptItems(c.tasks, r)] >>] >>
    /\ UNCHANGED << op_run, is_run, split_run >>
    /\ UNCHANGED << fvars, evars, pvars, svars, dvars >>

\* ACTIONS['filter'](tasks, key, ...) with the arguments the shortcut
\* stands for
ShortcutAsFilter ==
    /\ shortcut_run # <<>>
    /\ shortcut_run[1].ref = <<>>
    /\ LET c == shortcut_run[1]
           r == equivalent_filter(c.name, TaskDicts(Store0, c.tasks), c.args)
       IN  shortcut_run' = << [c EXCEPT !.ref = << [status |-> r.status,
                                                     tasks |-> KeptItems(c.tasks, r)] >>] >>
    /\ UNCHANGED << op_run, is_run, split_run >>
    /\ UNCHANGED << fvars, evars, pvars, svars, dvars >>

ShortcutNext == ShortcutCall \/ ShortcutAsFilter
SpecShortcut == ShortcutInit /\ [][ShortcutNext]_vars

(***************************************************************************)
(* The -is, -not and -due filters of action_commands.py.  A point in local *)
(* time is day * (END_OF_DAY_TIME + 1) + tick, the ticks of a day being    *)
(* 0 (00:00:00) .. END_OF_DAY_TIME (23:59:59); the days are 0 (yesterday), *)
(* 1 (today) and 2 (tomorrow), so that str() of every point has the same   *)
(* length, as str() of a datetime has.                                     *)
(***************************************************************************)
END_OF_DAY_TIME == 2
DayTicks == 0..END_OF_DAY_TIME
PointOf(day, tick) == day * (END_OF_DAY_TIME + 1) + tick
DayOf(n) == n \div (END_OF_DAY_TIME + 1)

\* a start of day that leaves the time of day as it is
start_of_day_Kept(n) == n

\* dt.replace(hour=0, minute=0, second=0)
start_of_day(n) == PointOf(DayOf(n), 0)
\* dt.replace(hour=23, minute=59, second=59)
end_of_day(n) == PointOf(DayOf(n), END_OF_DAY_TIME)

\* the `due` of an item: none (<<>>), a date (<< day >>, an all-day item) or
\* a date and a time (<< day, tick >>)
Dues ==
    { <<>> } \cup { << d >> : d \in 0..2 } \cup { << d, t >> : d \in 0..2, t \in DayTicks }
\* add_task_date_fields: due_date_dt of an item with a due date, in local
\* time; an all-day item gets the time allday_time=END_OF_DAY_TIME
due_date_dt(due) ==
    IF Len(due) = 1 THEN Dt(PointOf(due[1], END_OF_DAY_TIME))
    ELSE Dt(PointOf(due[1], due[2]))

\* the fields of _custom_data that the -is filters read, for the i-th
\* record of a list
IsDict(rec, i) ==
    Dict({ <<"id", I(i)>>, <<"checked", I(rec.checked)>>,
           <<"project_name", S(<< "a" >>)>>,
           <<"due", IF rec.due = <<>> THEN NoneV ELSE DictV>>,
           <<"due.is_recurring", IF Len(rec.due) = 2 THEN TrueV ELSE FalseV>> }
         \cup (IF rec.due = <<>> THEN {}
               ELSE { <<"due_date_dt", due_date_dt(rec.due)>> }))
IsDicts(recs) == [i \in DOMAIN recs |-> IsDict(recs[i], i)]

\* cal.parseDT(when, version=2) at the time of day tod: the datetime, and
\* context.hasDate and context.hasTime.  A date without a time has the time
\* of day of the clock.
parseDT(when, tod) ==
    CASE when = "yesterday" -> [dt |-> PointOf(0, tod), hasDate |-> TRUE, hasTime |-> FALSE]
      [] when = "today"     -> [dt |-> PointOf(1, tod), hasDate |-> TRUE, hasTime |-> FALSE]
      [] when = "tomorrow"  -> [dt |-> PointOf(2, tod), hasDate |-> TRUE, hasTime |-> FALSE]
      [] when = "today noon" -> [dt |-> PointOf(1, 1), hasDate |-> TRUE, hasTime |-> TRUE]
      [] OTHER              -> [dt |-> PointOf(1, tod), hasDate |-> FALSE, hasTime |-> FALSE]

\* `when`, op_name and convert of the due branch: args is a tuple, and
\* args[0:2] has two elements, so that it equals neither three-element list
due_plan(args) ==
    IF SubSeq(args, 1, IF Len(args) < 2 THEN Len(args) ELSE 2)
         \in { << "due", "or", "overdue" >>, << "overdue", "or", "due" >> }
    THEN [raised |-> TRUE, when |-> "", op_name |-> "", convert |-> ""]
    ELSE IF args[1] = "overdue"
    THEN [raised |-> FALSE, when |-> "today", op_name |-> "lt", convert |-> "start_of_day"]
    ELSE IF Len(args) > 1
    THEN IF args[2] \in {"before", "on", "after"}
         THEN [raised   |-> Len(args) < 3,
               when     |-> IF Len(args) < 3 THEN "" ELSE args[3],
               op_name  |-> CASE args[2] = "before" -> "lt"
                              [] args[2] = "on"     -> "startswith"
                              [] OTHER              -> "gt",
               convert  |-> CASE args[2] = "before" -> "start_of_day"
                              [] args[2] = "on"     -> "none"
                              [] OTHER              -> "end_of_day"]
         ELSE [raised |-> FALSE, when |-> args[2], op_name |-> "startswith",
               convert |-> "none"]
    ELSE [raised |-> FALSE, when |-> "today", op_name |-> "le", convert |-> "end_of_day"]

\* the datetime compared with: snapped to the start or the end of the day
\* only when no time was given
due_value(plan, got) ==
    IF plan.convert # "none" /\ ~got.hasTime
    THEN (IF plan.convert = "start_of_day" THEN start_of_day(got.dt)
          ELSE end_of_day(got.dt))
    ELSE got.dt

\* the due branch of special_is_filter: the completed tasks are removed
\* first, then due_date_dt is compared with the datetime
is_due(tasks, args, negate, tod) ==
    LET plan == due_plan(args)
    IN  IF plan.raised THEN RaisedCall
        ELSE LET got == parseDT(plan.when, tod)
             IN  IF ~got.hasDate THEN RaisedCall
                 ELSE LET unchecked == filter_tasks("action_commands", tasks, "checked", "eq",
                                                    I(0), "include", NoneV, NoneV, FalseV)
                      IN  IF unchecked.status = "raised" THEN RaisedCall
                          ELSE filter_tasks("action_commands", unchecked.tasks,
                                            "due_date_dt", plan.op_name,
                                            Dt(due_value(plan, got)),
                                            "exclude", NoneV, NoneV, B(negate))

\* special_is_filter(tasks, *args)
special_is_filter(tasks, args, tod) ==
    IF args = <<>> THEN RaisedCall
    ELSE LET negate == args[1] = "not"
             args1  == IF negate THEN Tail(args) ELSE args
         IN  IF args1 = <<>> THEN RaisedCall
             ELSE IF args1[1] \in {"due", "overdue"}
             THEN is_due(tasks, args1, negate, tod)
             ELSE IF args1[1] \in {"checked", "unchecked", "complete", "incomplete",
                                   "completed", "done"}
             THEN filter_tasks("action_commands", tasks, "checked", "eq",
                               I(IF args1[1] \in {"unchecked", "incomplete"} THEN 0 ELSE 1),
                               "exclude", NoneV, NoneV, B(negate))
             ELSE IF args1[1] = "in"
             THEN IF Len(args1) < 2 THEN RaisedCall
                  ELSE filter_tasks("action_commands", tasks, "project_name", "eq",
                                    ArgV(args1[2]), "exclude", NoneV, NoneV, B(negate))
             ELSE IF args1[1] = "recurring"
             THEN [status |-> "ok",
                   tasks  |-> SelectSeq(tasks, LAMBDA d : ~PyEq(is_recurring(d), B(negate))),
                   args   |-> <<>>, trace |-> <<>>]
             ELSE RaisedCall

\* is_not_filter(tasks, *args)
is_not_filter(tasks, args, tod) == special_is_filter(tasks, << "not" >> \o args, tod)
\* due_date_filter(tasks, *when)
due_date_filter(tasks, when, tod) == special_is_filter(tasks, << "due" >> \o when, tod)

\* ACTIONS[name] for -is, -not and -due
is_handler(name, tasks, args, tod) ==
    CASE name = "is"  -> special_is_filter(tasks, args, tod)
      [] name = "not" -> is_not_filter(tasks, args, tod)
      [] name = "due" -> due_date_filter(tasks, args, tod)

\* the days named on the command line, and the arguments of -is
IsDays == { "yesterday", "today", "tomorrow" }
WhenDay(when) == CASE when = "yesterday" -> 0 [] when = "today" -> 1 [] OTHER -> 2
IsArgs ==
    { <<>>, << "due" >>, << "overdue" >>, << "due", "or", "overdue" >>,
      << "overdue", "or", "due" >>, << "due", "before" >>, << "due", "today noon" >>,
      << "due", "before", "today noon" >>, << "not", "due", "before", "today" >>,
      << "unchecked" >>, << "not", "done" >>, << "in", "a" >>, << "in" >>,
      << "recurring" >>, << "not", "recurring" >>, << "frob" >> }
    \cup { << "due", d >> : d \in IsDays }
    \cup { << "due", w, d >> : w \in {"before", "on", "after"}, d \in IsDays }
DueArgs ==
    { <<>>, << "or", "overdue" >> }
    \cup { << d >> : d \in IsDays }
    \cup { << w, d >> : w \in {"before", "on"}, d \in IsDays }
IsCalls ==
    { [name |-> "is", args |-> a] : a \in IsArgs }
    \cup { [name |-> "due", args |-> a] : a \in DueArgs }
    \cup { [name |-> "not", args |-> a] : a \in { << "checked" >>, << "due", "today" >> } }

\* the records of a working list: done or not, and the due of each
DueRecs == [checked : {0, 1}, due : Dues]
DueLists == { << r >> : r \in DueRecs } \cup { << r, s >> : r \in DueRecs, s \in DueRecs }

\* the ids of the records that a call kept
KeptIds(r) ==
    [status |-> r.status,
     ids    |-> IF r.status = "raised" THEN <<>>
                ELSE [i \in DOMAIN r.tasks |-> r.tasks[i]["id"].n]]

IsInit ==
    /\ is_run \in { << c >> : c \in [ call : IsCalls, recs : DueLists, tod : DayTicks,
                                      ret : {<<>>}, ref : {<<>>} ] }
    /\ op_run = <<>> /\ shortcut_run = <<>> /\ split_run = <<>>
    /\ call = <<>> /\ ret = NoRet /\ retNeg = NoRet
    /\ NoRun
    /\ NoParse
    /\ NoSort
    /\ NoDerive

\* ACTIONS[name](tasks, *args) at the time of day tod
IsCall ==
    /\ is_run # <<>>
    /\ is_run[1].ret = <<>>
    /\ LET c == is_run[1]
       IN  is_run' = << [c EXCEPT !.ret =
                           << KeptIds(is_handler(c.call.name, IsDicts(c.recs),
                                                 c.call.args, c.tod)) >>] >>
    /\ UNCHANGED << op_run, shortcut_run, split_run >>
    /\ UNCHANGED << fvars, evars, pvars, svars, dvars >>

\* ACTIONS['is'](tasks, 'due', 'before', 'tomorrow') on the same list at the
\* same time of day
IsDueBeforeTomorrow ==
    /\ is_run # <<>>
    /\ is_run[1].ref = <<>>
    /\ LET c == is_run[1]
       IN  is_run' = << [c EXCEPT !.ref =
                           << KeptIds(special_is_filter(IsDicts(c.recs),
                                                        << "due", "before", "tomorrow" >>,
                                                        c.tod)) >>] >>
    /\ UNCHANGED << op_run, shortcut_run, split_run >>
    /\ UNCHANGED << fvars, evars, pvars, svars, dvars >>

IsNext == IsCall \/ IsDueBeforeTomorrow
SpecIs == IsInit /\ [][IsNext]_vars

(***************************************************************************)
(* filter_tasks on a list and on its two parts.                            *)
(***************************************************************************)
SplitKeys == { "project_id", "priority", "content" }
SplitOps == { "eq", "lt", "startswith" }
SplitValues == { S(<< "1", "2" >>), S(<< "a" >>), I(1) }

\* what the call r of filter_tasks on the tasks l of the pool gave
SplitKept(l, r) ==
    [status |-> r.status,
     tasks  |-> IF r.status = "raised" THEN <<>> ELSE KeptTasks(l, r.trace)]
\* filter_tasks on the tasks l of the pool with the arguments of the run c
split_filter(c, l) ==
    SplitKept(l, filter_tasks(c.module, TasksOf(l), c.taskkey, c.op_name, c.value,
                              c.missing, NoneV, NoneV, FalseV))
\* the results of two calls, one after the other: the kept tasks of both,
\* unless one of the calls raised
split_concat(r1, r2) ==
    IF r1.status = "raised" \/ r2.status = "raised"
    THEN [status |-> "raised", tasks |-> <<>>]
    ELSE [status |-> "ok", tasks |-> r1.tasks \o r2.tasks]

SplitInit ==
    /\ split_run \in { << c >> : c \in
          { x \in [ module : Modules, tasks : TaskLists(MaxTasks), cut : 0..MaxTasks,
                    taskkey : SplitKeys, op_name : SplitOps, value : SplitValues,
                    missing : {"exclude", "include"},
                    whole : {<<>>}, parts : {<<>>} ] :
              x.cut <= Len(x.tasks) } }
    /\ op_run = <<>> /\ shortcut_run = <<>> /\ is_run = <<>>
    /\ call = <<>> /\ ret = NoRet /\ retNeg = NoRet
    /\ NoRun
    /\ NoParse
    /\ NoSort
    /\ NoDerive

\* filter_tasks(A + B, ...)
SplitWhole ==
    /\ split_run # <<>>
    /\ split_run[1].whole = <<>>
    /\ LET c == split_run[1]
       IN  split_run' = << [c EXCEPT !.whole = << split_filter(c, c.tasks) >>] >>
    /\ UNCHANGED << op_run, shortcut_run, is_run >>
    /\ UNCHANGED << fvars, evars, pvars, svars, dvars >>

\* filter_tasks(A, ...) + filter_tasks(B, ...)
SplitParts ==
    /\ split_run # <<>>
    /\ split_run[1].parts = <<>>
    /\ LET c == split_run[1]
           first == SubSeq(c.tasks, 1, c.cut)
           rest  == SubSeq(c.tasks, c.cut + 1, Len(c.tasks))
       IN  split_run' = << [c EXCEPT !.parts = << split_concat(split_filter(c, first),
                                                                split_filter(c, rest)) >>] >>
    /\ UNCHANGED << op_run, shortcut_run, is_run >>
    /\ UNCHANGED << fvars, evars, pvars, svars, dvars >>

SplitNext == SplitWhole \/ SplitParts
SpecSplit == SplitInit /\ [][SplitNext]_vars

(***************************************************************************)
(* Properties of filter_tasks.                                            *)
(***************************************************************************)
RECURSIVE SelectFrom(_, _, _)
\* the elements seq[i], seq[i+1], ... whose index is in the mask, in order
SelectFrom(seq, mask, i) ==
    IF i > Len(seq) THEN <<>>
    ELSE (IF mask[i] THEN << seq[i] >> ELSE <<>>) \o SelectFrom(seq, mask, i + 1)

\* the resolved attribute of the i-th input record
Attr(i) == TaskValue(call.tasks[i], call.taskkey, NoneV)
\* operator(attr, value) != negate for the i-th record of the call r, with
\* the comparison value and the negate flag in effect at that record
Passes(r, i) ==
    PyNe(OpApply(call.op_name, Attr(i), r.trace[i].value), r.args.negate)
\* the comparison value in effect before the i-th record is looked at
ValueBefore(r, i) == IF i = 1 THEN r.args.value ELSE r.trace[i - 1].value

C5_DefaultForNull ==
    (call.missing = "default" /\ ret.status # "none" /\ ~ret.args.raised
        /\ ~IsNone(ret.args.default)) =>
        \A i \in 1..Len(ret.trace) :
            IsNone(Attr(i)) => ret.trace[i].task_value = ret.args.default

Range(seq) == { seq[i] : i \in DOMAIN seq }

\* C7: under missing="exclude" the results of a filter specification with
\* negate=False and with negate=True are disjoint and together hold exactly
\* the input records whose resolved attribute is non-null.
C7_NegatePartitions ==
    (call.missing = "exclude" /\ ret.status = "ok" /\ retNeg.status = "ok") =>
        /\ Range(ret.tasks) \cap Range(retNeg.tasks) = {}
        /\ Range(ret.tasks) \cup Range(retNeg.tasks)
             = { call.tasks[i] : i \in { j \in DOMAIN call.tasks : ~IsNone(Attr(j)) } }

\* C8: a str comparison value beginning with `!` loses exactly that one
\* character and the effective negate is the given negate flipped.
C8_BangFlipsNegate ==
    (ret.status # "none" /\ HasBang(call.value)
        /\ call.value_transform = Placeholder) =>
        /\ ret.args.value = S(Tail(call.value.s))
        /\ ret.args.negate = ~NormNegate(call.negate)

\* C9: with re or ire under missing="exclude" the output holds exactly the
\* records whose non-null attribute matches the pattern at its start when
\* negate is false, and exactly the non-matching ones when negate is true.
C9_ReSelectsMatching ==
    (call.op_name \in {"re", "ire"} /\ call.missing = "exclude"
        /\ ret.status = "ok") =>
        ret.tasks = SelectFrom(call.tasks,
                               [i \in 1..Len(call.tasks) |->
                                   /\ ~IsNone(Attr(i))
                                   /\ (ret.trace[i].result = MatchV) # ret.args.negate],
                               1)

\* C10 as stated: whenever the resolved value is not None and its type
\* differs from the comparison value's, the comparison value is converted
\* to that type, whatever the type.
C10_CoercesEveryType ==
    \A i \in 1..Len(ret.trace) :
        LET tv == ret.trace[i].task_value
            v  == ValueBefore(ret, i)
        IN  (~IsNone(tv) /\ tv.t # v.t) => ret.trace[i].value = CoerceTo(tv.t, v)

\* C10: the comparison value is converted to the type of a non-None record
\* value of another type when that value is an int or a bool, and in
\* action_cli.py for every type; otherwise it is left as it is, and the
\* record value is never converted.
C10_CoercesAsCoded ==
    \A i \in 1..Len(ret.trace) :
        LET tv == ret.trace[i].task_value
            v  == ValueBefore(ret, i)
        IN  /\ tv = TaskValue(call.tasks[i], call.taskkey,
                              IF call.missing = "default" THEN ret.args.default
                              ELSE NoneV)
            /\ ret.trace[i].value =
                 IF ~IsNone(tv) /\ tv.t # v.t
                    /\ (call.module = "action_cli" \/ tv.t \in {"int", "bool"})
                 THEN CoerceTo(tv.t, v) ELSE v

C10_Witness ==
    /\ ret.status = "ok" /\ call.module = "action_commands"
    /\ Len(ret.trace) = 2
    /\ ret.trace[1].task_value.t = "int" /\ ret.args.value.t = "str"
    /\ ret.trace[1].value.t = "int"
    /\ ret.trace[2].task_value.t = "str" /\ ret.trace[2].value = ret.trace[1].value

(***************************************************************************)
(* Properties of the run of a chain.                                       *)
(***************************************************************************)
\* C2: when an action name of the chain is not in the dispatch table, no
\* handler of the chain is invoked, and nothing is queued, changed or
\* pushed to the server.
C2_UnknownActionRejects ==
    ((\E i \in DOMAIN chain : chain[i].name \notin ActionTable(table))
        /\ pc \notin {"start", "none"}) =>
        /\ pc = "rejected"
        /\ log = <<>>
        /\ queue = <<>>
        /\ pushed = <<>>
        /\ data = Store0.data
        /\ custom = Store0.custom

C2_Witness ==
    /\ pc = "rejected"
    /\ Len(chain) = 2
    /\ chain[1].name = "reschedule"
    /\ chain[2].name = "frobnicate"

\* C3: the handlers are invoked in chain order, each at most once; the
\* first receives all the items, every other one the list the handler
\* before it returned; after a handler that raised none is invoked.
C3_HandlersInChainOrder ==
    /\ Len(log) <= Len(chain)
    /\ \A k \in DOMAIN log :
        /\ log[k].pos = k
        /\ log[k].name = chain[k].name
        /\ log[k].received = IF k = 1 THEN AllItems ELSE log[k - 1].returned
        /\ log[k].raised => k = Len(log)
    /\ pc = "run" => (pos = Len(log) + 1 /\ (log = <<>> \/ ~log[Len(log)].raised))

C3_Witness ==
    /\ Len(log) = 3
    /\ ~log[3].raised
    /\ log[2].received # AllItems
    /\ log[3].received # log[2].received
    /\ log[3].received # <<>>

\* the actions that change tasks
MutatingActions ==
    { "reschedule", "rename", "mark-completed", "mark-as-done",
      "close", "reopen", "uncomplete", "archive" }

\* C4 as stated: a mutating action leaves the values that filter, sort and
\* print read (_custom_data) as they were.
C4_MutationOnlyQueued ==
    [][(pc = "run" /\ chain[pos].name \in MutatingActions) => custom' = custom]_vars

\* action_cli.py's reschedule called with a timezone and update_local
UpdateLocalCall ==
    /\ table = "action_cli"
    /\ chain[pos].name = "reschedule"
    /\ Len(chain[pos].args) >= 3
    /\ chain[pos].args[2] # "date_string"

\* C4: the values that filter, sort and print read are changed by no step
\* of a run but sync, commit and action_cli.py's reschedule with a timezone
\* and update_local; every other mutating action only queues its effect.
C4_OnlyQueuedButUpdateLocal ==
    [][custom' # custom =>
          (pc = "run" /\ (chain[pos].name \in {"sync", "commit"} \/ UpdateLocalCall))]_vars

C4_Witness ==
    /\ Len(log) >= 1
    /\ log[1].name = "rename"
    /\ ~log[1].raised
    /\ queue # <<>>
    /\ \E id \in DOMAIN data : data[id]["content"] # custom[id]["content"]
    /\ custom = Store0.custom

(***************************************************************************)
(* Properties of parse_argv.                                               *)
(***************************************************************************)
\* the token starts with a dash
IsDash(t) == t # <<>> /\ t[1] = "-"
\* the places of the dash tokens of argv
DashAt == { i \in DOMAIN argv : IsDash(argv[i]) }
\* the number of the group the token at place i falls in, 0 for the base
GroupOf(i) == Cardinality({ j \in DashAt : j <= i })
\* the positional and the keyword arguments of group g of the result
ArgsOfGroup(g) ==
    IF g = 0 THEN parsed[1].base_args ELSE parsed[1].action_groups[g].args
KwargsOfGroup(g) ==
    IF g = 0 THEN parsed[1].base_kwargs ELSE parsed[1].action_groups[g].kwargs
\* the key and the value of a token with a `=`, by its first `=`
EqPlaces(t) == { i \in DOMAIN t : t[i] = "=" }
TokenKey(t) == SubSeq(t, 1, (CHOOSE i \in EqPlaces(t) : \A j \in EqPlaces(t) : i <= j) - 1)
TokenValue(t) ==
    SubSeq(t, (CHOOSE i \in EqPlaces(t) : \A j \in EqPlaces(t) : i <= j) + 1, Len(t))
\* the places of the non-dash tokens of group g, without and with a `=`
PositionalAt(g) ==
    { i \in DOMAIN argv : GroupOf(i) = g /\ ~IsDash(argv[i]) /\ EqPlaces(argv[i]) = {} }
KeywordAt(g) ==
    { i \in DOMAIN argv : GroupOf(i) = g /\ ~IsDash(argv[i]) /\ EqPlaces(argv[i]) # {} }
ParseReturned == parsed # <<>> /\ ~parsed[1].raised

\* C11: the action list of parse_argv has one group per dash token, in
\* token order, named by the token without its first character; the
\* positional tokens of a group (of the base before the first dash token)
\* are those that follow its dash token, in their order, and its keyword
\* arguments come from the key=value tokens that follow it; no token gives
\* an empty base and an empty action list.
C11_GroupsByDashTokens ==
    ParseReturned =>
        /\ Len(parsed[1].action_groups) = Cardinality(DashAt)
        /\ \A i \in DashAt : parsed[1].action_groups[GroupOf(i)].name = Tail(argv[i])
        /\ \A g \in 0..Cardinality(DashAt) :
            /\ Len(ArgsOfGroup(g)) = Cardinality(PositionalAt(g))
            /\ \A i \in PositionalAt(g) :
                 ArgsOfGroup(g)[Cardinality({ j \in PositionalAt(g) : j <= i })] = argv[i]
            /\ { kv[1] : kv \in Range(KwargsOfGroup(g)) }
                 = { TokenKey(argv[i]) : i \in KeywordAt(g) }
        /\ argv = <<>> =>
             /\ parsed[1].base_args = <<>>
             /\ parsed[1].base_kwargs = <<>>
             /\ parsed[1].action_groups = <<>>

C11_Witness ==
    /\ ParseReturned
    /\ Len(argv) = 3
    /\ parsed[1].base_args # <<>>
    /\ Len(parsed[1].action_groups) = 1
    /\ parsed[1].action_groups[1].args # <<>>

\* C12: a non-dash token with a `=` is no positional argument: its key (the
\* part before its first `=`) is a key of the keyword arguments of its
\* group, with the value (the part after that `=`) of the last such token
\* of the group; a non-dash token without `=` is a positional argument.
C12_KeyValueTokens ==
    ParseReturned =>
        \A g \in 0..Cardinality(DashAt) :
            /\ \A a \in Range(ArgsOfGroup(g)) : EqPlaces(a) = {}
            /\ \A i \in PositionalAt(g) : argv[i] \in Range(ArgsOfGroup(g))
            /\ \A i \in KeywordAt(g) :
                 LET last == CHOOSE j \in KeywordAt(g) :
                                 /\ TokenKey(argv[j]) = TokenKey(argv[i])
                                 /\ \A k \in KeywordAt(g) :
                                      TokenKey(argv[k]) = TokenKey(argv[i]) => k <= j
                 IN  << TokenKey(argv[i]), TokenValue(argv[last]) >>
                         \in Range(KwargsOfGroup(g))
            /\ \A m, n \in DOMAIN KwargsOfGroup(g) :
                 KwargsOfGroup(g)[m][1] = KwargsOfGroup(g)[n][1] => m = n

C12_Witness ==
    /\ ParseReturned
    /\ Len(argv) = 3
    /\ IsDash(argv[1])
    /\ KeywordAt(1) = {2, 3}
    /\ TokenKey(argv[2]) = TokenKey(argv[3])
    /\ TokenValue(argv[2]) # TokenValue(argv[3])
    /\ EqPlaces(TokenValue(argv[3])) # {}
    /\ parsed[1].action_groups[1].kwargs
         = << << TokenKey(argv[3]), TokenValue(argv[3]) >> >>

\* C13: parse_argv of the tokens written again from what parse_argv
\* returned returns the same base args, base kwargs and action list.
C13_RoundTrip ==
    reparsed # <<>> =>
        /\ ~reparsed[1].raised
        /\ reparsed[1].base_args = parsed[1].base_args
        /\ Range(reparsed[1].base_kwargs) = Range(parsed[1].base_kwargs)
        /\ Len(reparsed[1].action_groups) = Len(parsed[1].action_groups)
        /\ \A g \in DOMAIN parsed[1].action_groups :
            /\ reparsed[1].action_groups[g].name = parsed[1].action_groups[g].name
            /\ reparsed[1].action_groups[g].args = parsed[1].action_groups[g].args
            /\ Range(reparsed[1].action_groups[g].kwargs)
                 = Range(parsed[1].action_groups[g].kwargs)

C13_Witness ==
    /\ reparsed # <<>>
    /\ Serialize(parsed[1]) # argv
    /\ Len(parsed[1].action_groups) = 1
    /\ parsed[1].action_groups[1].args # <<>>
    /\ parsed[1].action_groups[1].kwargs # <<>>

(***************************************************************************)
(* Properties of sort_tasks.                                               *)
(***************************************************************************)
\* the reverse of a sequence
Reversed(seq) == [i \in DOMAIN seq |-> seq[Len(seq) + 1 - i]]
\* the values of the sort keys of task id
SortKeyOf(id) == [j \in DOMAIN sort_call.keys |-> SortPool[id][sort_call.keys[j]]]
\* two tasks of the call share their key values
Tie(a, b) == \A j \in DOMAIN sort_call.keys : PyEq(SortKeyOf(a)[j], SortKeyOf(b)[j])
\* both orders were sorted, and no call raised
BothSorted ==
    /\ sorted_asc # <<>> /\ ~sorted_asc[1].st.raised
    /\ sorted_desc # <<>> /\ ~sorted_desc[1].st.raised
\* the place of task id in a list
PlaceIn(l, id) == CHOOSE i \in DOMAIN l : l[i] = id
\* l holds the tasks of the call, those with equal keys in their input order
StablePermutation(l) ==
    /\ Len(l) = Len(sort_call.tasks)
    /\ Range(l) = Range(sort_call.tasks)
    /\ \A i, j \in DOMAIN sort_call.tasks :
         (i < j /\ Tie(sort_call.tasks[i], sort_call.tasks[j])) =>
             PlaceIn(l, sort_call.tasks[i]) < PlaceIn(l, sort_call.tasks[j])

\* C14 as stated: for a single key, whatever the key values, the list in
\* descending order is the reverse of the list in ascending order.
C14_DescendingIsReverse ==
    (BothSorted /\ Len(sort_call.keys) = 1) =>
        sorted_desc[1].tasks = Reversed(sorted_asc[1].tasks)

\* C14: for a single key, the list in descending order is the reverse of
\* the list in ascending order exactly when no two records of the input
\* have the same key value.
C14_ReverseUnlessTies ==
    (BothSorted /\ Len(sort_call.keys) = 1) =>
        ((sorted_desc[1].tasks = Reversed(sorted_asc[1].tasks))
            <=> (\A i, j \in DOMAIN sort_call.tasks :
                    i # j => ~Tie(sort_call.tasks[i], sort_call.tasks[j])))

C14_Witness ==
    /\ BothSorted
    /\ Len(sort_call.keys) = 1
    /\ Len(sort_call.tasks) = 3
    /\ sorted_asc[1].tasks # sort_call.tasks
    /\ sorted_desc[1].tasks # sort_call.tasks
    /\ sorted_desc[1].tasks = Reversed(sorted_asc[1].tasks)

\* C15: sort_tasks returns a permutation of its input in which the records
\* with equal keys are in their input order, in ascending and in descending
\* order; a list sorted already is returned as it is by a sort in the same
\* order.
C15_StableBothOrders ==
    /\ (sorted_asc # <<>> /\ ~sorted_asc[1].st.raised) =>
           StablePermutation(sorted_asc[1].tasks)
    /\ (sorted_desc # <<>> /\ ~sorted_desc[1].st.raised) =>
           StablePermutation(sorted_desc[1].tasks)
    /\ resorted_asc # <<>> =>
           (~resorted_asc[1].st.raised /\ resorted_asc[1].tasks = sorted_asc[1].tasks)
    /\ resorted_desc # <<>> =>
           (~resorted_desc[1].st.raised /\ resorted_desc[1].tasks = sorted_desc[1].tasks)

C15_Witness ==
    /\ BothSorted
    /\ resorted_asc # <<>> /\ resorted_desc # <<>>
    /\ Len(sort_call.tasks) = 3
    /\ \E i, j \in DOMAIN sort_call.tasks :
         i # j /\ Tie(sort_call.tasks[i], sort_call.tasks[j])
    /\ sorted_asc[1].tasks # sort_call.tasks
    /\ sorted_desc[1].tasks # sort_call.tasks

(***************************************************************************)
(* Properties of the derivation of fields.                                 *)
(***************************************************************************)
\* the item has no due date
NoDueDate(d) == ~Truthy(Get(d, "due", NoneV)) /\ ~Truthy(Get(d, "due_date_utc", NoneV))
\* the item's fields were derived, the last time without an exception
IsDerived == d_custom # <<>> /\ d_last \in {"derived", "changed", "rederived"}

\* C16: after every change of the primary fields followed by a derivation,
\* the derived dict is the one that the current primary fields alone give:
\* due_date_safe_dt is present, and an item without due date has the
\* sentinel as due_date_safe_dt and no due_date_dt.
C16_DerivedFromCurrentFields ==
    IsDerived =>
        /\ Has(d_custom[1], "due_date_safe_dt")
        /\ NoDueDate(d_data) =>
             /\ d_custom[1]["due_date_safe_dt"] = NO_DUEDATE_DATETIME
             /\ ~Has(d_custom[1], "due_date_dt")
        /\ d_custom[1] = first_derivation(d_data).custom[1]

\* C17: a derivation of an item whose fields are derived and whose primary
\* fields did not change leaves every derived field and every primary
\* field as it was.
C17_DerivationIdempotent ==
    (d_custom # <<>> /\ d_last = "rederived") =>
        /\ d_custom = d_prev[1].custom
        /\ d_data = d_prev[1].data

C17_Witness ==
    /\ d_last = "rederived"
    /\ d_changes = MaxChanges
    /\ Has(d_custom[1], "due_date_dt")
    /\ d_custom[1]["project_name"] = S(<< "A" >>)

(***************************************************************************)
(* Properties of sync and commit.                                          *)
(***************************************************************************)
Last(q) == q[Len(q)]
\* the step is a commit that is carried out: it wrote its line to stdout
CommitCarriedOut ==
    /\ At({"commit"})
    /\ out' # out
    /\ Last(out') = << CommittingLine(Len(queue)) >>
\* the step is a commit that was declined at the prompt
CommitDeclined ==
    /\ At({"commit"})
    /\ out' # out
    /\ Last(out') = << AbortingLine >>

\* C18: after a sync action nothing that was queued before it is pending,
\* and a commit that follows the sync pushes nothing that was queued before
\* the sync.
C18_SyncDiscardsQueue ==
    [][ /\ (At({"sync"}) /\ pc' # "aborted") => queue' = <<>>
        /\ (At({"commit"}) /\ pos > 1 /\ chain[pos - 1].name = "sync")
              => pushed' = pushed ]_vars

\* C18 as amended: a sync action neither pushes nor drops the queue; every
\* step but a commit carried out leaves the queued commands in the queue,
\* and a commit carried out pushes all of them.
C18_SyncKeepsQueue ==
    [][ /\ At({"sync"}) => (queue' = queue /\ pushed' = pushed)
        /\ CommitCarriedOut => (pushed' = pushed \o queue /\ queue' = <<>>)
        /\ ~CommitCarriedOut => (IsPrefix(queue, queue') /\ pushed' = pushed) ]_vars

\* a rename, a sync and a commit carried out: the rename was pushed
C18_Witness ==
    /\ pc = "done"
    /\ Len(log) = 3
    /\ log[1].name = "rename" /\ log[2].name = "sync" /\ log[3].name = "commit"
    /\ Len(pushed) = Len(Items0)
    /\ \A i \in DOMAIN pushed : pushed[i].type = "item_update"
    /\ queue = <<>>

\* a -y action is in the chain before the action that is about to run
YesRanEarlier == \E i \in 1..(pos - 1) : chain[i].name \in {"y", "yes", "no-prompt"}
\* the step showed the prompt of commit
Asked ==
    /\ Len(out') > Len(out)
    /\ out'[Len(out) + 1][1][1] = PromptLine(0, <<>>)[1]
\* what was typed at the prompt the step showed
Typed == StrChars(out'[Len(out) + 1][1][3])
\* the loop goes to the next action group with the same working list
GoesOnUnchanged ==
    /\ task_items' = task_items
    /\ pos' = pos + 1
    /\ pc' = IF pos = Len(chain) THEN "done" ELSE "run"

\* C19: a commit pushes the queue without asking exactly when a -y action
\* ran earlier in the chain; otherwise it asks, and on an answer that
\* begins with n or N it pushes nothing, leaves the queue and the working
\* list as they are, and the chain goes on; on any other answer it pushes.
C19_CommitAsksUnlessYes ==
    [][ At({"commit"}) =>
          /\ YesRanEarlier <=> (~Asked /\ pushed' = pushed \o queue /\ queue' = <<>>)
          /\ ~YesRanEarlier =>
               /\ Asked
               /\ IF Typed # <<>> /\ Typed[1] \in {"n", "N"}
                  THEN /\ pushed' = pushed
                       /\ queue' = queue
                       /\ GoesOnUnchanged
                  ELSE /\ pushed' = pushed \o queue
                       /\ queue' = <<>> ]_vars

\* a commit declined with "No" before the -y of the chain ran: nothing is
\* pushed, the queue is pending, and the -y after it ran
C19_Witness ==
    /\ pc = "done"
    /\ Len(log) = 3
    /\ log[1].name = "rename" /\ log[2].name = "commit" /\ log[3].name = "y"
    /\ out[Len(out) - 1] = << PromptLine(Len(Items0), << "N", "o" >>) >>
    /\ out[Len(out)] = << AbortingLine >>
    /\ pushed = <<>>
    /\ Len(queue) = Len(Items0)
    /\ log[3].received = log[2].received
    /\ ~ask_before_commit

\* what the derivation of the date fields and of the project fields writes
\* for an item with the data d: the derivation into an empty dict
derived_anew(d) ==
    add_project_fields(d, add_task_date_fields(d, Dict({})).d).d
\* every field of the dict d is in the dict c with the same value
HasFieldsOf(c, d) == \A k \in Keys : Has(d, k) => c[k] = d[k]
\* the step replaced the working list by the items of the store, and every
\* field that the derivation writes for an item has the value that the
\* item's data give
ListIsStoreRederived ==
    /\ task_items' = [i \in 1..Len(data') |-> i]
    /\ Len(data') = Len(Items0)
    /\ \A i \in 1..Len(data') :
         \A dates \in { add_task_date_fields(data'[i], Dict({})).d } :
           \A d \in { add_project_fields(data'[i], dates).d } :
              HasFieldsOf(custom'[i], d)

OpBothCalled == op_run # <<>> /\ op_run[1].ret # <<>> /\ op_run[1].low # <<>>

\* C21: every case-insensitive operator gives, for all operands, what the
\* case-sensitive operator it is named after gives for the lower-cased
\* operands, lists lower-cased element by element.
C21_InsensitiveIsSensitiveOnLowered ==
    OpBothCalled => op_run[1].ret = op_run[1].low

(***************************************************************************)
(* Properties of the shortcut filters.                                     *)
(***************************************************************************)
ShortcutBothCalled ==
    shortcut_run # <<>> /\ shortcut_run[1].ret # <<>> /\ shortcut_run[1].ref # <<>>
\* the arguments of the shortcut call after the optional `not`
ShortcutRest ==
    IF shortcut_run[1].args # <<>> /\ shortcut_run[1].args[1] = "not"
    THEN Tail(shortcut_run[1].args) ELSE shortcut_run[1].args

\* C22: a shortcut filter with one argument after the optional `not`
\* compares it with the default operator, and with two or more takes the
\* first as the operator, the second as the value and passes the further
\* ones on as missing policy, default and transform: it gives what the
\* -filter action on the pinned attribute gives for these.
C22_ShortcutIsFilter ==
    (ShortcutBothCalled /\ Len(ShortcutRest) >= 1)
        => shortcut_run[1].ret = shortcut_run[1].ref


(***************************************************************************)
(* Properties of the -is due filters.                                      *)
(***************************************************************************)
IsCalled == is_run # <<>> /\ is_run[1].ret # <<>>
IsBothCalled == IsCalled /\ is_run[1].ref # <<>>
\* the call made was -<name> <args>
IsForm(name, args) == is_run[1].call = [name |-> name, args |-> args]
\* what a call gives that keeps, in order, the records that are not done
\* and are due on a day for which Test holds
KeepsDueOn(recs, Test(_)) ==
    [status |-> "ok",
     ids    |-> SelectSeq([i \in DOMAIN recs |-> i],
                          LAMBDA i : /\ recs[i].checked = 0
                                     /\ recs[i].due # <<>>
                                     /\ Test(recs[i].due[1]))]

\* C23: `-is due before D` with a date D without a time keeps exactly the
\* records that are not done and whose due timestamp is earlier than the
\* start of day D: a record due the day before D is kept at any time of
\* day, an all-day one included, and a record due at or after 00:00:00 of D
\* is not kept.
C23_DueBeforeIsBeforeStartOfDay ==
    \A D \in IsDays :
        (IsCalled /\ IsForm("is", << "due", "before", D >>))
            => is_run[1].ret[1] = KeepsDueOn(is_run[1].recs, LAMBDA d : d < WhenDay(D))

\* `-is due before tomorrow` has run, at a time of day after midnight, on a
\* list of an all-day record due today, which it kept, and a record due
\* tomorrow at 00:00:00, which it did not keep
C23_Witness ==
    /\ IsCalled
    /\ IsForm("is", << "due", "before", "tomorrow" >>)
    /\ is_run[1].tod = 1
    /\ is_run[1].recs = << [checked |-> 0, due |-> << 1 >>],
                           [checked |-> 0, due |-> << 2, 0 >>] >>
    /\ is_run[1].ret[1] = [status |-> "ok", ids |-> << 1 >>]

\* C26: `-is due on D`, `-is due D` and `-due D` with a date D without a
\* time keep exactly the records that are not done and whose due timestamp
\* falls on day D, whatever the time of day of the record and of the clock.
C26_DueOnIsSameDay ==
    \A D \in IsDays :
        (IsCalled /\ (\/ IsForm("is", << "due", "on", D >>)
                      \/ IsForm("is", << "due", D >>)
                      \/ IsForm("due", << D >>)))
            => is_run[1].ret[1] = KeepsDueOn(is_run[1].recs, LAMBDA d : d = WhenDay(D))

\* C27: `-is due` without a further argument and `-is due or overdue` run
\* to completion and keep exactly the records that `-is due before
\* tomorrow` keeps.
C27_DueIsBeforeTomorrow ==
    (IsBothCalled /\ (IsForm("is", << "due" >>) \/ IsForm("is", << "due", "or", "overdue" >>)))
        => /\ is_run[1].ret[1].status = "ok"
           /\ is_run[1].ret[1] = is_run[1].ref[1]


(***************************************************************************)
(* parse_argv on every token list.                                         *)
(***************************************************************************)
\* C30: parse_argv returns, without raising, for every finite list of
\* tokens, the lists that hold the empty token included.
C30_ParseReturnsForEveryArgv ==
    parsed # <<>> => ~parsed[1].raised


VerboseCalls == { i \in DOMAIN log : log[i].name \in {"v", "verbose"} }

\* C28: every -v or -verbose action returns the working list as it got it
\* and raises by one the verbosity that the later actions are passed.
C28_VerboseIncrements ==
    /\ \A i \in VerboseCalls : ~log[i].raised /\ log[i].returned = log[i].received
    /\ verbose = Cardinality(VerboseCalls)

\* the actions that only select, order or show
ReadingActions ==
    { "filter", "has", "sort", "print", "h", "help", "-help", "show-queue", "print-queue" }
\* the invocation of this step returned
StepReturned == ~log'[Len(log')].raised
\* the queue got one more command for every record of the list, in order
OneChangePerRecord ==
    /\ Len(queue') = Len(queue) + Len(task_items)
    /\ SubSeq(queue', 1, Len(queue)) = queue
    /\ \A i \in DOMAIN task_items : queue'[Len(queue) + i].id = task_items[i]

\* C29: the queue grows only when a mutating action runs, which adds one
\* change for every record of the working list it received and none for a
\* record that an earlier filter removed; filter, sort, print, help and
\* show-queue change neither the queue nor a field of a record.
C29_QueueGrowsByMutatingActions ==
    [][ pc = "run" =>
          /\ Len(queue') > Len(queue) => chain[pos].name \in MutatingActions
          /\ (chain[pos].name \in MutatingActions /\ StepReturned) => OneChangePerRecord
          /\ chain[pos].name \in ReadingActions
               => (queue' = queue /\ data' = data /\ custom' = custom)
      ]_vars

\* a mutating action ran on a list that a filter had shortened, and the
\* queue holds one change for each record of that list
C29_Witness ==
    /\ Len(log) >= 2
    /\ log[1].name = "filter"
    /\ ~log[2].raised
    /\ log[2].name \in MutatingActions
    /\ Len(log[2].received) < Len(AllItems)
    /\ Len(log[2].received) >= 1
    /\ Len(queue) = Len(log[2].received)


(***************************************************************************)
(* filter_tasks and the order of the records.                              *)
(***************************************************************************)
SplitBothCalled ==
    split_run # <<>> /\ split_run[1].whole # <<>> /\ split_run[1].parts # <<>>

\* C25: whether filter_tasks keeps a record depends on the record and the
\* filter only: the filter of the concatenation of two lists is the
\* concatenation of the filters of the two, also when the records hold the
\* attribute with different types.
C25_FilterOfConcatenation ==
    SplitBothCalled => split_run[1].whole = split_run[1].parts

=============================================================================
